---- MODULE Spec2Model ----
(***************************************************************************)
(* Companytec DT435 client: the transport session of the Node.js client    *)
(* (src/companytec-client.js, class CompanytecClient) and of the Go client *)
(* (src/unnamed/part_001, type Client), driven by concurrent callers and   *)
(* a device at the other end of the TCP connection.                        *)
(*                                                                         *)
(* impl selects the implementation a behaviour runs: "js" is the event     *)
(* loop client, every handler one atomic action; "go" is the mutex client, *)
(* one action per blocking point of a goroutine.                           *)
(***************************************************************************)
EXTENDS Integers, Sequences, FiniteSets, TLC

\* ---------------------------------------------------------------- bounds
NumCallers == 2      \* concurrent callers (poll ticks, REST handlers, goroutines)
MaxOps == 3          \* calls of connect, disconnect and send in one behaviour
MaxLen == 5          \* length of the strings the codec is applied to
MaxDigits == 7       \* digits of the values the operations are called with
MaxTicks == 3        \* poll ticks of the monitor's supply loop in one behaviour
MaxRecords == 2      \* supply records the device holds for reading

Callers == 1..NumCallers
\* Every connection is opened by a connect call and every frame is written by a
\* send call, so MaxOps bounds both.
SockIds == 1..MaxOps
CallIds == 1..MaxOps

Impls == {"js", "go"}

\* The device's replies; "(0)" is the protocol's no-data frame.
Responses == { <<"(", "0", ")">> }

\* A reply reaches the client in one TCP segment (split 0) or cut in two
\* after its first character.
Splits(resp) == {n \in {0, 1} : n < Len(resp)}

VARIABLES
    impl,        \* "js" or "go"
    connected,   \* this.connected / c.connected
    conn,        \* this.client / c.conn: a socket id, 0 for null / nil
    mu,          \* c.mu: the caller holding it, 0 when unlocked (go)
    sock,        \* sock[s]: state of TCP connection s
    wire,        \* wire[s]: frames written to s the device has not answered in full
    inbound,     \* inbound[s]: chunks sent by the device, not yet read
    listeners,   \* listeners[s]: once("data") listeners on s, by call id (js)
    pc,          \* pc[c]: where caller c stands
    frame,       \* frame[c]: the error SendCommand returns once its Disconnect
                 \*   call is back; "top" when c is not inside SendCommand
    cur,         \* cur[c]: c's current call: send call id, socket, fault met
    acc,         \* acc[c]: what ReadString has accumulated (go)
    ret,         \* ret[c]: result of c's last completed call
    writes,      \* writes[k]: times send call k wrote its frame
    ops,         \* calls made so far (n) and the caller of the latest one (by)
    call,        \* the codec function or typed operation applied last, its arguments
    out,         \* what it produced
    mon          \* the monitor's supply loop and the device it polls

\* The transport session, and what runs beside it: the codec's latest
\* application and the monitor.
session == <<connected, conn, mu, sock, wire, inbound, listeners, pc, frame,
             cur, acc, ret, writes, ops>>
codec == <<call, out, mon>>
vars == <<impl, session, codec>>

\* ------------------------------------------------------------- helpers
Closer == ")"

Contains(seq, ch) == \E i \in 1..Len(seq) : seq[i] = ch

FirstIndex(seq, ch) == CHOOSE i \in 1..Len(seq) :
                          seq[i] = ch /\ \A j \in 1..(i - 1) : seq[j] # ch

\* A socket not yet created.
Free(s) == sock[s].st = "free"
HasFree == \E s \in SockIds : Free(s)
NewSock == CHOOSE s \in SockIds : Free(s) /\ \A t \in SockIds : Free(t) => s <= t

\* Sockets whose descriptor the client still holds open.
Live(s) == sock[s].st \in {"connecting", "open", "peerclosed"}
\* Established connections.
Established(s) == sock[s].st \in {"open", "peerclosed"}

\* No codec function is applied.
NoApplication == [fn |-> "none", on |-> <<>>]
\* What a codec function produced: nothing yet, or the value it returned.
Pending == [st |-> "pending", val |-> <<>>]
Returned(v) == [st |-> "ok", val |-> v]

NoChunks == [data |-> <<>>, chunks |-> {}]
NoCall == [id |-> 0, sock |-> 0, fault |-> "none"]

Result(op, st, err, data, chunks) ==
    [op |-> op, st |-> st, err |-> err, data |-> data, chunks |-> chunks]
NoRet == Result("none", "none", "", <<>>, {})
Running(op) == Result(op, "none", "", <<>>, {})
Ok(op) == Result(op, "ok", "", <<>>, {})
Err(op, e) == Result(op, "err", e, <<>>, {})
Response(data, chunks) == Result("send", "ok", "", data, chunks)

\* A disconnect, or the loss of an established connection, makes every connect
\* begun before it stale (fresh records this for the claims; no action reads it).
Stale(ss) == [s \in SockIds |-> [ss[s] EXCEPT !.fresh = FALSE]]

\* The id the next send call that writes its frame gets.
NextCall == Cardinality({k \in CallIds : writes[k] > 0}) + 1

\* ---------------------------------------------------------------- Init
\* The session after construction.
SessionInit ==
    /\ connected = FALSE
    /\ conn = 0
    /\ mu = 0
    /\ sock = [s \in SockIds |-> [st |-> "free", fresh |-> FALSE]]
    /\ wire = [s \in SockIds |-> <<>>]
    /\ inbound = [s \in SockIds |-> <<>>]
    /\ listeners = [s \in SockIds |-> {}]
    /\ pc = [c \in Callers |-> "idle"]
    /\ frame = [c \in Callers |-> "top"]
    /\ cur = [c \in Callers |-> NoCall]
    /\ acc = [c \in Callers |-> NoChunks]
    /\ ret = [c \in Callers |-> NoRet]
    /\ writes = [k \in CallIds |-> 0]
    /\ ops = [n |-> 0, by |-> 0]
    \* new PumpMonitor(host, port): lastSupplyRecord = null (last = <<>>), no
    \* tick has run, nothing written (sent), received (inbound) or awaited
    \* (listeners), onNewSupply not called (notified); the device's pointer is
    \* on its first record.
    /\ mon = [tick |-> [t \in 1..MaxTicks |-> "wait"], last |-> <<>>,
              pointer |-> 0, sent |-> <<>>, inbound |-> <<>>,
              listeners |-> <<>>, notified |-> 0]

Init ==
    /\ impl \in Impls
    /\ SessionInit
    /\ call = NoApplication
    /\ out = Pending

\* -------------------------------------------------------- the device
\* A frame of call k as the device holds it: rest is what it still has to send
\* of its reply, <<>> while it has sent nothing.
Frame(k) == [call |-> k, rest |-> <<>>]

\* The device sends the next segment on connection s: the reply to the oldest
\* unanswered frame, whole or only its first `split` characters, or the rest
\* of a reply it has begun.
DeviceReply(s) ==
    /\ sock[s].st = "open"
    /\ wire[s] # <<>>
    /\ LET h == Head(wire[s]) IN
       IF h.rest = <<>>
       THEN \E resp \in Responses : \E split \in Splits(resp) :
              IF split = 0
              THEN /\ inbound' = [inbound EXCEPT ![s] =
                        Append(@, [call |-> h.call, part |-> 1, data |-> resp])]
                   /\ wire' = [wire EXCEPT ![s] = Tail(@)]
              ELSE /\ inbound' = [inbound EXCEPT ![s] =
                        Append(@, [call |-> h.call, part |-> 1,
                                   data |-> SubSeq(resp, 1, split)])]
                   /\ wire' = [wire EXCEPT ![s] =
                        <<[h EXCEPT !.rest = SubSeq(resp, split + 1, Len(resp))]>>
                        \o Tail(@)]
       ELSE /\ inbound' = [inbound EXCEPT ![s] =
                 Append(@, [call |-> h.call, part |-> 2, data |-> h.rest])]
            /\ wire' = [wire EXCEPT ![s] = Tail(@)]
    /\ UNCHANGED <<codec, impl, connected, conn, mu, sock, listeners, pc, frame, cur,
                   acc, ret, writes, ops>>

\* The device (or the network) ends connection s; frames it had not answered
\* or not answered in full stay so.
PeerClose(s) ==
    /\ sock[s].st = "open"
    /\ sock' = [sock EXCEPT ![s].st = "peerclosed"]
    /\ wire' = [wire EXCEPT ![s] = <<>>]
    /\ UNCHANGED <<codec, impl, connected, conn, mu, inbound, listeners, pc, frame,
                   cur, acc, ret, writes, ops>>

\* The client closes (destroys) socket s: what was in flight on it is dropped.
Closed(ss, s) == [ss EXCEPT ![s].st = "closed"]
Dropped(q, s) == [q EXCEPT ![s] = <<>>]


\* ------------------------------------------------- Node.js client (js)
\* A guard that tests the socket object instead of the flag.
JsNoClient == conn = 0

\* sendCommand's guard, if (!this.connected).
JsNotConnected == ~connected

\* connect(): a new net.Socket replaces this.client and starts connecting; the
\* returned promise stays pending.
JsConnect(c) ==
    /\ impl = "js"
    /\ pc[c] = "idle"
    /\ ops.n < MaxOps
    /\ HasFree
    /\ LET s == NewSock IN
         /\ sock' = [sock EXCEPT ![s] = [st |-> "connecting", fresh |-> TRUE]]
         /\ conn' = s
         /\ cur' = [cur EXCEPT ![c] = [id |-> 0, sock |-> s, fault |-> "none"]]
    /\ pc' = [pc EXCEPT ![c] = "connect_wait"]
    /\ ret' = [ret EXCEPT ![c] = Running("connect")]
    /\ ops' = [n |-> ops.n + 1, by |-> c]
    /\ UNCHANGED <<codec, impl, connected, mu, wire, inbound, listeners, frame, acc,
                   writes>>

\* The connect promise of socket s is still pending in caller c.
JsConnecting(c, s) == pc[c] = "connect_wait" /\ cur[c].sock = s

\* The callback of this.client.connect(port, host, cb) on socket s.
JsConnectCallback(s) ==
    /\ impl = "js"
    /\ sock[s].st = "connecting"
    /\ sock' = [sock EXCEPT ![s].st = "open"]
    /\ connected' = TRUE
    /\ pc' = [c \in Callers |-> IF JsConnecting(c, s) THEN "idle" ELSE pc[c]]
    /\ ret' = [c \in Callers |->
                IF JsConnecting(c, s) THEN Ok("connect") ELSE ret[c]]
    /\ UNCHANGED <<codec, impl, conn, mu, wire, inbound, listeners, frame, cur, acc,
                   writes, ops>>

\* The send calls waiting for data on socket s meet fault f.
JsFault(s, f) ==
    [c \in Callers |->
       IF pc[c] = "send_wait" /\ cur[c].sock = s /\ cur[c].fault = "none"
       THEN [cur[c] EXCEPT !.fault = f] ELSE cur[c]]

\* The "error" handler of socket s (refused connect, reset, failed write):
\* connected = false, reject(error); the socket destroys itself and its
\* "close" handler runs after it.
JsSocketError(s) ==
    /\ impl = "js"
    /\ sock[s].st \in {"connecting", "peerclosed"}
    /\ sock' = IF Established(s) THEN Stale(Closed(sock, s)) ELSE Closed(sock, s)
    /\ wire' = Dropped(wire, s)
    /\ inbound' = Dropped(inbound, s)
    /\ connected' = FALSE
    /\ pc' = [c \in Callers |-> IF JsConnecting(c, s) THEN "idle" ELSE pc[c]]
    /\ ret' = [c \in Callers |->
                IF JsConnecting(c, s)
                THEN Err("connect", "ConnectError") ELSE ret[c]]
    /\ cur' = JsFault(s, "read")
    /\ UNCHANGED <<codec, impl, conn, mu, listeners, frame, acc, writes, ops>>

\* The "close" handler of socket s after the peer ended the connection.
JsSocketClose(s) ==
    /\ impl = "js"
    /\ sock[s].st = "peerclosed"
    /\ inbound[s] = <<>>
    /\ sock' = Stale(Closed(sock, s))
    /\ wire' = Dropped(wire, s)
    /\ connected' = FALSE
    /\ cur' = JsFault(s, "read")
    /\ UNCHANGED <<codec, impl, conn, mu, inbound, listeners, pc, frame, acc, ret,
                   writes, ops>>

\* disconnect(): destroys this.client when there is one.
JsDisconnect(c) ==
    /\ impl = "js"
    /\ pc[c] = "idle"
    /\ ops.n < MaxOps
    /\ IF conn # 0
       THEN /\ sock' = Stale(Closed(sock, conn))
            /\ wire' = Dropped(wire, conn)
            /\ inbound' = Dropped(inbound, conn)
            /\ connected' = FALSE
       ELSE /\ sock' = Stale(sock)
            /\ UNCHANGED <<wire, inbound, connected>>
    /\ ret' = [ret EXCEPT ![c] = Ok("disconnect")]
    /\ cur' = [cur EXCEPT ![c] = NoCall]
    /\ ops' = [n |-> ops.n + 1, by |-> c]
    /\ UNCHANGED <<codec, impl, conn, mu, listeners, pc, frame, acc, writes>>

\* sendCommand(command): the promise executor, run synchronously by the call.
JsSendCommand(c) ==
    /\ impl = "js"
    /\ pc[c] = "idle"
    /\ ops.n < MaxOps
    /\ ops' = [n |-> ops.n + 1, by |-> c]
    /\ IF JsNotConnected
       THEN /\ ret' = [ret EXCEPT ![c] = Err("send", "NotConnected")]
            /\ cur' = [cur EXCEPT ![c] = NoCall]
            /\ UNCHANGED <<wire, listeners, pc, writes>>
       ELSE IF conn = 0
       THEN \* this.client is null: write throws and the promise rejects
            /\ ret' = [ret EXCEPT ![c] = Err("send", "TypeError")]
            /\ cur' = [cur EXCEPT ![c] = NoCall]
            /\ UNCHANGED <<wire, listeners, pc, writes>>
       ELSE LET k == NextCall IN
            /\ writes' = [writes EXCEPT ![k] = @ + 1]
            /\ wire' = [wire EXCEPT ![conn] =
                          IF sock[conn].st \in {"connecting", "open"}
                          THEN Append(@, Frame(k)) ELSE @]
            /\ listeners' = [listeners EXCEPT ![conn] = @ \cup {k}]
            /\ cur' = [cur EXCEPT ![c] =
                         [id |-> k, sock |-> conn, fault |-> "none"]]
            /\ pc' = [pc EXCEPT ![c] = "send_wait"]
            /\ ret' = [ret EXCEPT ![c] = Running("send")]
    /\ UNCHANGED <<codec, impl, connected, conn, mu, sock, inbound, frame, acc>>

\* A "data" event on socket s: every once("data") listener runs with the chunk
\* and is removed.
JsData(s) ==
    /\ impl = "js"
    /\ Established(s)
    /\ inbound[s] # <<>>
    /\ LET chunk == Head(inbound[s])
           hit(c) == pc[c] = "send_wait" /\ cur[c].id \in listeners[s]
       IN /\ pc' = [c \in Callers |-> IF hit(c) THEN "idle" ELSE pc[c]]
          /\ ret' = [c \in Callers |->
                       IF hit(c)
                       THEN Response(chunk.data, {<<chunk.call, chunk.part>>})
                       ELSE ret[c]]
    /\ inbound' = [inbound EXCEPT ![s] = Tail(@)]
    /\ listeners' = [listeners EXCEPT ![s] = {}]
    /\ UNCHANGED <<codec, impl, connected, conn, mu, sock, wire, frame, cur, acc,
                   writes, ops>>

\* A timer that writes the frame again and goes on waiting.
JsTimeoutRetry(c) ==
    /\ impl = "js"
    /\ pc[c] = "send_wait"
    /\ writes' = [writes EXCEPT ![cur[c].id] = @ + 1]
    /\ wire' = [wire EXCEPT ![cur[c].sock] =
                  IF sock[cur[c].sock].st \in {"connecting", "open"}
                  THEN Append(@, Frame(cur[c].id)) ELSE @]
    /\ UNCHANGED <<codec, impl, connected, conn, mu, sock, inbound, listeners,
                   pc, frame, cur, acc, ret, ops>>

\* The 5000 ms timer of a pending sendCommand fires: reject, nothing else.
JsTimeout(c) ==
    /\ impl = "js"
    /\ pc[c] = "send_wait"
    /\ pc' = [pc EXCEPT ![c] = "idle"]
    /\ ret' = [ret EXCEPT ![c] = Err("send", "Timeout")]
    /\ cur' = [cur EXCEPT ![c].fault = IF @ = "none" THEN "timeout" ELSE @]
    /\ UNCHANGED <<codec, impl, connected, conn, mu, sock, wire, inbound, listeners,
                   frame, acc, writes, ops>>

JsNext ==
    \/ \E c \in Callers : JsConnect(c)
    \/ \E s \in SockIds : JsConnectCallback(s)
    \/ \E s \in SockIds : JsSocketError(s)
    \/ \E s \in SockIds : JsSocketClose(s)
    \/ \E c \in Callers : JsDisconnect(c)
    \/ \E c \in Callers : JsSendCommand(c)
    \/ \E s \in SockIds : JsData(s)
    \/ \E c \in Callers : JsTimeout(c)

\* ------------------------------------------------------ Go client (go)
\* SendCommand's guard, if !c.connected || c.conn == nil.
GoNotConnected == ~connected \/ conn = 0

\* Connect's guard, if c.connected && c.conn != nil.
GoAlreadyConnected == connected /\ conn # 0

GoOps == {"Connect", "Disconnect", "IsConnected", "SendCommand"}
\* Where a goroutine stands: waiting in c.mu.Lock() of op, then in op's body.
LockOf(op) == CASE op = "Connect" -> "Connect.Lock"
                [] op = "Disconnect" -> "Disconnect.Lock"
                [] op = "IsConnected" -> "IsConnected.Lock"
                [] op = "SendCommand" -> "SendCommand.Lock"
BodyOf(p) == CASE p = "Connect.Lock" -> "Connect.Body"
               [] p = "Disconnect.Lock" -> "Disconnect.Body"
               [] p = "IsConnected.Lock" -> "IsConnected.Body"
               [] p = "SendCommand.Lock" -> "SendCommand.Body"

\* A goroutine calls Connect, Disconnect or SendCommand and reaches c.mu.Lock().
GoCall(c) ==
    /\ impl = "go"
    /\ pc[c] = "idle"
    /\ ops.n < MaxOps
    /\ \E op \in GoOps :
         /\ pc' = [pc EXCEPT ![c] = LockOf(op)]
         /\ ret' = [ret EXCEPT ![c] = Running(op)]
    /\ cur' = [cur EXCEPT ![c] = NoCall]
    /\ ops' = [n |-> ops.n + 1, by |-> c]
    /\ UNCHANGED <<codec, impl, connected, conn, mu, sock, wire, inbound, listeners,
                   frame, acc, writes>>

\* c.mu.Lock() returns: sync.Mutex is not reentrant, the holder waits like
\* everybody else.
GoLock(c) ==
    /\ impl = "go"
    /\ pc[c] \in {LockOf(op) : op \in GoOps}
    /\ mu = 0
    /\ mu' = c
    /\ pc' = [pc EXCEPT ![c] = BodyOf(pc[c])]
    /\ UNCHANGED <<codec, impl, connected, conn, sock, wire, inbound, listeners,
                   frame, cur, acc, ret, writes, ops>>

\* Connect, with the mutex held, to its return (the deferred Unlock).
GoConnect(c) ==
    /\ impl = "go"
    /\ pc[c] = "Connect.Body"
    /\ \/ /\ GoAlreadyConnected
          /\ ret' = [ret EXCEPT ![c] = Ok("Connect")]
          /\ UNCHANGED <<sock, conn, connected>>
       \/ /\ ~GoAlreadyConnected      \* net.DialTimeout fails
          /\ ret' = [ret EXCEPT ![c] = Err("Connect", "ConnectError")]
          /\ UNCHANGED <<sock, conn, connected>>
       \/ /\ ~GoAlreadyConnected      \* net.DialTimeout succeeds
          /\ HasFree
          /\ sock' = [sock EXCEPT ![NewSock] = [st |-> "open", fresh |-> TRUE]]
          /\ conn' = NewSock
          /\ connected' = TRUE
          /\ ret' = [ret EXCEPT ![c] = Ok("Connect")]
    /\ mu' = 0
    /\ pc' = [pc EXCEPT ![c] = "idle"]
    /\ UNCHANGED <<codec, impl, wire, inbound, listeners, frame, cur, acc, writes, ops>>

\* A Disconnect that clears the flag and leaves the connection stored.
GoDisconnectFlagOnly(c) ==
    /\ impl = "go"
    /\ pc[c] = "Disconnect.Body"
    /\ connected' = FALSE
    /\ mu' = 0
    /\ pc' = [pc EXCEPT ![c] = "idle"]
    /\ ret' = [ret EXCEPT ![c] = Ok("Disconnect")]
    /\ UNCHANGED <<codec, impl, sock, wire, inbound, conn, listeners, frame,
                   cur, acc, writes, ops>>

\* Disconnect, with the mutex held, to its return (the deferred Unlock). Called
\* from SendCommand it returns there, and SendCommand returns frame[c].
GoDisconnect(c) ==
    /\ impl = "go"
    /\ pc[c] = "Disconnect.Body"
    /\ IF conn # 0
       THEN /\ sock' = Stale(Closed(sock, conn))
            /\ wire' = Dropped(wire, conn)
            /\ inbound' = Dropped(inbound, conn)
            /\ conn' = 0
       ELSE /\ sock' = Stale(sock)
            /\ UNCHANGED <<wire, inbound, conn>>
    /\ connected' = FALSE
    /\ mu' = 0
    /\ pc' = [pc EXCEPT ![c] = "idle"]
    /\ ret' = [ret EXCEPT ![c] =
                 IF frame[c] = "top" THEN Ok("Disconnect")
                 ELSE Err("SendCommand", frame[c])]
    /\ frame' = [frame EXCEPT ![c] = "top"]
    /\ UNCHANGED <<codec, impl, listeners, cur, acc, writes, ops>>

\* IsConnected, with the mutex held, to its return (the deferred Unlock).
GoIsConnected(c) ==
    /\ impl = "go"
    /\ pc[c] = "IsConnected.Body"
    /\ ret' = [ret EXCEPT ![c] =
                 Result("IsConnected", "ok", "", <<connected>>, {})]
    /\ mu' = 0
    /\ pc' = [pc EXCEPT ![c] = "idle"]
    /\ UNCHANGED <<codec, impl, connected, conn, sock, wire, inbound, listeners,
                   frame, cur, acc, writes, ops>>

\* SendCommand, with the mutex held, from the guard through SetDeadline and
\* conn.Write. A write error calls c.Disconnect() with the mutex still held.
GoSendCommand(c) ==
    /\ impl = "go"
    /\ pc[c] = "SendCommand.Body"
    /\ IF GoNotConnected
       THEN /\ ret' = [ret EXCEPT ![c] = Err("SendCommand", "NotConnected")]
            /\ mu' = 0
            /\ pc' = [pc EXCEPT ![c] = "idle"]
            /\ UNCHANGED <<wire, frame, cur, acc, writes>>
       ELSE LET k == NextCall IN
            /\ writes' = [writes EXCEPT ![k] = @ + 1]
            /\ acc' = [acc EXCEPT ![c] = NoChunks]
            /\ \/ /\ wire' = [wire EXCEPT ![conn] =
                                IF sock[conn].st = "open"
                                THEN Append(@, Frame(k)) ELSE @]
                  /\ cur' = [cur EXCEPT ![c] =
                               [id |-> k, sock |-> conn, fault |-> "none"]]
                  /\ pc' = [pc EXCEPT ![c] = "SendCommand.Read"]
                  /\ UNCHANGED frame
               \/ /\ sock[conn].st = "peerclosed"   \* broken pipe, reset
                  /\ cur' = [cur EXCEPT ![c] =
                               [id |-> k, sock |-> conn, fault |-> "write"]]
                  /\ frame' = [frame EXCEPT ![c] = "WriteError"]
                  /\ pc' = [pc EXCEPT ![c] = "Disconnect.Lock"]
                  /\ UNCHANGED wire
            /\ UNCHANGED <<mu, ret>>
    /\ UNCHANGED <<codec, impl, connected, conn, sock, inbound, listeners, ops>>

\* reader.ReadString(')') takes the next bytes off the connection and returns
\* once they hold the delimiter; the rest of what it buffered goes with the reader.
GoRead(c) ==
    /\ impl = "go"
    /\ pc[c] = "SendCommand.Read"
    /\ Established(conn)
    /\ inbound[conn] # <<>>
    /\ LET chunk == Head(inbound[conn])
           data == acc[c].data \o chunk.data
           chunks == acc[c].chunks \cup {<<chunk.call, chunk.part>>}
       IN IF Contains(chunk.data, Closer)
          THEN /\ ret' = [ret EXCEPT ![c] =
                            Response(SubSeq(data, 1, FirstIndex(data, Closer)),
                                     chunks)]
               /\ acc' = [acc EXCEPT ![c] = NoChunks]
               /\ mu' = 0
               /\ pc' = [pc EXCEPT ![c] = "idle"]
          ELSE /\ acc' = [acc EXCEPT ![c] = [data |-> data, chunks |-> chunks]]
               /\ UNCHANGED <<ret, mu, pc>>
    /\ inbound' = [inbound EXCEPT ![conn] = Tail(@)]
    /\ UNCHANGED <<codec, impl, connected, conn, sock, wire, listeners, frame, cur,
                   writes, ops>>

\* reader.ReadString(')') fails with nothing more to read: the deadline passed,
\* or the peer ended the connection. With no data at all SendCommand calls
\* c.Disconnect() with the mutex still held; with some data it returns it.
GoReadError(c) ==
    /\ impl = "go"
    /\ pc[c] = "SendCommand.Read"
    /\ inbound[conn] = <<>>
    /\ cur' = [cur EXCEPT ![c].fault =
                 IF sock[conn].st = "peerclosed" THEN "read" ELSE "timeout"]
    /\ IF acc[c].data = <<>>
       THEN /\ frame' = [frame EXCEPT ![c] = "ReadError"]
            /\ pc' = [pc EXCEPT ![c] = "Disconnect.Lock"]
            /\ UNCHANGED <<ret, mu, acc>>
       ELSE /\ ret' = [ret EXCEPT ![c] = Response(acc[c].data, acc[c].chunks)]
            /\ acc' = [acc EXCEPT ![c] = NoChunks]
            /\ mu' = 0
            /\ pc' = [pc EXCEPT ![c] = "idle"]
            /\ UNCHANGED frame
    /\ UNCHANGED <<codec, impl, connected, conn, sock, wire, inbound, listeners,
                   writes, ops>>

GoNext ==
    \/ \E c \in Callers : GoCall(c)
    \/ \E c \in Callers : GoLock(c)
    \/ \E c \in Callers : GoConnect(c)
    \/ \E c \in Callers : GoDisconnect(c)
    \/ \E c \in Callers : GoIsConnected(c)
    \/ \E c \in Callers : GoSendCommand(c)
    \/ \E c \in Callers : GoRead(c)
    \/ \E c \in Callers : GoReadError(c)

Next ==
    \/ \E s \in SockIds : DeviceReply(s)
    \/ \E s \in SockIds : PeerClose(s)
    \/ JsNext
    \/ GoNext

Spec == Init /\ [][Next]_vars

\* What the runtime does for caller c without anybody's help: the timer of a
\* pending sendCommand fires; a goroutine is scheduled, takes the free mutex,
\* runs the body of its call, and its read returns or meets the deadline.
Runs(c) ==
    \/ JsTimeout(c)
    \/ GoLock(c)
    \/ GoConnect(c)
    \/ GoDisconnect(c)
    \/ GoIsConnected(c)
    \/ GoSendCommand(c)
    \/ GoRead(c)
    \/ GoReadError(c)

\* The session under a runtime that keeps its timers and goroutines running.
LiveSpec == Spec /\ \A c \in Callers : WF_vars(Runs(c))

\* ------------------------------------------------------------ the codec
\* A string is a sequence of characters. Ascii lists the printable ASCII
\* characters in code order, from the space (code 32) to the tilde (126);
\* "grave" stands for the grave accent (code 96).
Ascii == <<
    " ", "!", "\"", "#", "$", "%", "&", "'", "(", ")", "*", "+",
    ",", "-", ".", "/", "0", "1", "2", "3", "4", "5", "6", "7",
    "8", "9", ":", ";", "<", "=", ">", "?", "@", "A", "B", "C",
    "D", "E", "F", "G", "H", "I", "J", "K", "L", "M", "N", "O",
    "P", "Q", "R", "S", "T", "U", "V", "W", "X", "Y", "Z", "[",
    "\\", "]", "^", "_", "grave", "a", "b", "c", "d", "e", "f", "g",
    "h", "i", "j", "k", "l", "m", "n", "o", "p", "q", "r", "s",
    "t", "u", "v", "w", "x", "y", "z", "{", "|", "}", "~" >>

\* command.charCodeAt(i) / int(runes[i]) of character ch.
charCodeAt(ch) == 31 + (CHOOSE i \in 1..Len(Ascii) : Ascii[i] = ch)

\* The digits of Number.prototype.toString(radix).
LowerDigits == <<"0", "1", "2", "3", "4", "5", "6", "7", "8", "9",
                 "a", "b", "c", "d", "e", "f">>
\* The digits of fmt's %X and %d verbs.
UpperDigits == <<"0", "1", "2", "3", "4", "5", "6", "7", "8", "9",
                 "A", "B", "C", "D", "E", "F">>

\* n.toString(radix) of a number n >= 0.
RECURSIVE toString(_, _)
toString(n, radix) ==
    IF n < radix THEN <<LowerDigits[n + 1]>>
    ELSE toString(n \div radix, radix) \o <<LowerDigits[(n % radix) + 1]>>

\* s.toUpperCase(): the letters a..z (codes 97..122) become A..Z.
toUpperCase(s) ==
    [i \in 1..Len(s) |->
       IF charCodeAt(s[i]) \in 97..122
       THEN Ascii[charCodeAt(s[i]) - 32 - 31] ELSE s[i]]

\* s.padEnd(width, ch): the padding put behind s.
padEnd(s, width, ch) ==
    IF Len(s) >= width THEN s
    ELSE s \o [i \in 1..(width - Len(s)) |-> ch]

\* s.padStart(width, ch): ch repeated in front of s up to width; s itself
\* when it is as long as width or longer.
padStart(s, width, ch) ==
    IF Len(s) >= width THEN s
    ELSE [i \in 1..(width - Len(s)) |-> ch] \o s

\* fmt's integer verbs for n >= 0 in the given base, without padding.
RECURSIVE FmtInteger(_, _)
FmtInteger(n, base) ==
    IF n < base THEN <<UpperDigits[n + 1]>>
    ELSE FmtInteger(n \div base, base) \o <<UpperDigits[(n % base) + 1]>>

\* fmt's 0 flag with a width: zeros in front of s up to width.
FmtZeroPad(s, width) ==
    IF Len(s) >= width THEN s
    ELSE [i \in 1..(width - Len(s)) |-> "0"] \o s

\* The loop of calculateChecksum: the sum of the codes of command's characters
\* from (1-based) position i on.
RECURSIVE SumFrom(_, _)
SumFrom(command, i) ==
    IF i > Len(command) THEN 0
    ELSE charCodeAt(command[i]) + SumFrom(command, i + 1)

\* A loop that starts at the opening delimiter instead of after it.
SumAll(command) == SumFrom(command, 1)

\* for (let i = 1; i < command.length; i++) sum += command.charCodeAt(i)
SumBody(command) == SumFrom(command, 2)

\* calculateChecksum(command) of the Node.js client:
\* (sum & 0xff).toString(16).toUpperCase().padStart(2, "0")
calculateChecksum(command) ==
    padStart(toUpperCase(toString(SumBody(command) % 256, 16)), 2, "0")

\* A checksum formatted with "%X", without the zero padding.
GoChecksumUnpadded(command) == FmtInteger(SumBody(command) % 256, 16)

\* calculateChecksum(command) of the Go client: fmt.Sprintf("%02X", sum&0xff)
GoCalculateChecksum(command) ==
    FmtZeroPad(FmtInteger(SumBody(command) % 256, 16), 2)

\* A frame whose checksum is computed over header and parameters only, so that
\* the loop skips the header's first character instead of the delimiter.
BuildOverInner(header, parameters) ==
    LET inner == header \o parameters
    IN <<"(">> \o inner \o calculateChecksum(inner) \o <<")">>

\* buildCommand(header, parameters) of the Node.js client.
buildCommand(header, parameters) ==
    LET commandBody == <<"(">> \o header \o parameters
        checksum == calculateChecksum(commandBody)
    IN commandBody \o checksum \o <<")">>

\* BuildCommand(header, parameters) of the Go client.
BuildCommand(header, parameters) ==
    LET commandBody == <<"(">> \o header \o parameters
        checksum == GoCalculateChecksum(commandBody)
    IN commandBody \o checksum \o <<")">>

\* The strings over alphabet of length n or less.
Strings(alphabet, n) == UNION {[1..k -> alphabet] : k \in 0..n}

\* The application of codec function fn to args.
Applied(fn, args) == [fn |-> fn, on |-> args]

\* The frame bodies calculateChecksum is applied to: the strings over the
\* opening delimiter and three body characters, and the README's example.
BodyChars == {"(", "&", "P", "X"}
Bodies == Strings(BodyChars, MaxLen) \cup {<<"(", "&", "T", "0", "8", "L">>}

\* The headers and parameter strings buildCommand is applied to.
Headers == {<<>>, <<"&", "A">>, <<"&", "T">>, <<"?", "L", "F">>,
            <<"&", "K", "W", "1">>}
ParamChars == {"0", "8", "L"}
Parameters == Strings(ParamChars, MaxLen)

\* A caller applies calculateChecksum to a frame body.
Checksum ==
    /\ call.fn = "calculateChecksum"
    /\ out = Pending
    /\ out' = Returned(IF impl = "js" THEN calculateChecksum(call.on[1])
                       ELSE GoCalculateChecksum(call.on[1]))
    /\ UNCHANGED <<impl, session, call, mon>>

\* A caller applies buildCommand / BuildCommand to a header and parameters.
Build ==
    /\ call.fn = "buildCommand"
    /\ out = Pending
    /\ out' = Returned(IF impl = "js"
                       THEN buildCommand(call.on[1], call.on[2])
                       ELSE BuildCommand(call.on[1], call.on[2]))
    /\ UNCHANGED <<impl, session, call, mon>>

\* ------------------------------------------------- typed operations
\* A JavaScript argument: a number or a string.
Num(n) == [t |-> "number", v |-> n]
Str(s) == [t |-> "string", v |-> s]
\* x.toString(), `${x}`.
String(x) == IF x.t = "number" THEN toString(x.v, 10) ELSE x.v

\* The operation passed command to sendCommand / SendCommand, which writes it
\* to the socket as it is.
Sent(command) == [st |-> "send", val |-> command]

\* readSupplyPointer(mode, position) of the Node.js client.
readSupplyPointer(mode, position) ==
    LET positionStr == padStart(String(position), 4, "0")
    IN buildCommand(<<"&", "L">>, mode \o positionStr)

\* readIdentifierFromMemory(position) of the Node.js client.
readIdentifierFromMemory(position) ==
    LET positionStr == padStart(String(position), 6, "0")
    IN buildCommand(<<"?", "L", "F">>, positionStr)

\* A price change without the literal "0" between level and price.
changePriceNoSeparator(nozzle, level, price) ==
    LET priceStr == padStart(String(price), 4, "0")
    IN buildCommand(<<"&", "U">>, nozzle \o level \o priceStr)

\* changePrice(nozzle, level, price) of the Node.js client.
changePrice(nozzle, level, price) ==
    LET priceStr == padStart(String(price), 4, "0")
    IN buildCommand(<<"&", "U">>, nozzle \o level \o <<"0">> \o priceStr)

\* setPreset(nozzle, value) of the Node.js client.
setPreset(nozzle, value) ==
    LET valueStr == padStart(String(value), 6, "0")
    IN buildCommand(<<"&", "P">>, nozzle \o valueStr)

\* setCalendar(day, hour, minute) of the Node.js client: no checksum.
setCalendar(day, hour, minute) ==
    <<"(", "&", "H">> \o day \o hour \o minute \o <<")">>

\* The other operations of the Node.js client, a[i] their i-th argument.
JsCommand(name, a) ==
    CASE name = "readSupply52" -> buildCommand(<<"&", "A">>, <<>>)
      [] name = "readSupplyIdentified" -> buildCommand(<<"&", "A">>, <<>>)
      [] name = "readSupplyDualIdentification" -> buildCommand(<<"&", "@">>, <<>>)
      [] name = "readSupplyPAF1" -> buildCommand(<<"&", "A", "2">>, <<>>)
      [] name = "readSupplyPAF2" -> buildCommand(<<"&", "A", "3">>, <<>>)
      [] name = "readSupplyPointer" -> readSupplyPointer(a[1], a[2])
      [] name = "readMemoryPointers" -> buildCommand(<<"&", "T", "9", "9">>, <<"P">>)
      [] name = "increment" -> <<"(", "&", "I", ")">>
      [] name = "getVisualization" -> <<"(", "&", "V", ")">>
      [] name = "getVisualizationIdentified" -> buildCommand(<<"?", "V">>, <<>>)
      [] name = "readIdentifier" -> buildCommand(<<"?", "A">>, <<>>)
      [] name = "recordIdentifier" ->
           buildCommand(<<"?", "F">>, a[1] \o a[2] \o a[3] \o a[4] \o a[5] \o a[6]
                                \o a[7])
      [] name = "deleteIdentifier" ->
           buildCommand(<<"?", "F">>, a[1] \o <<"A">> \o a[2] \o <<"0", "0">> \o a[3]
                                \o <<"0", "0", "0", "0", "0", "0", "0", "0">>)
      [] name = "incrementIdentifier" -> buildCommand(<<"?", "I">>, <<>>)
      [] name = "clearIdentifierMemory" ->
           buildCommand(<<"?", "F">>, <<"0", "0", "L", "0", "0", "0", "0", "0", "0", "0", "0", "0", "0", "0", "0", "0", "0", "0", "0", "0", "0", "0", "0", "0", "0", "1", "0", "0", "0", "0", "0", "0", "0", "0">>)
      [] name = "readIdentifierFromMemory" -> readIdentifierFromMemory(a[1])
      [] name = "getStatus" -> <<"(", "&", "S", ")">>
      [] name = "readTotal" -> buildCommand(<<"&", "T">>, a[1] \o a[2])
      [] name = "changePrice" -> changePrice(a[1], a[2], a[3])
      [] name = "changePriceExtended" ->
           buildCommand(<<"&", "U">>, a[1] \o a[2] \o <<"0">>
                                \o padStart(String(a[3]), 6, "0"))
      [] name = "readPrice" -> buildCommand(<<"&", "T">>, a[1] \o a[2])
      [] name = "setPreset" -> setPreset(a[1], a[2])
      [] name = "setPresetIdentified" ->
           buildCommand(<<"?", "F">>, a[1] \o <<"P">> \o a[2] \o a[3] \o a[4]
                                \o padStart(String(a[5]), 6, "0")
                                \o padStart(String(a[6]), 2, "0")
                                \o a[7] \o <<"0", "0", "0", "0", "0">>)
      [] name = "setOperatingMode" -> buildCommand(<<"&", "M">>, a[1] \o a[2])
      [] name = "readCalendar" -> <<"(", "&", "R", ")">>
      [] name = "readClockExtended" -> buildCommand(<<"&", "K", "R", "1">>, <<>>)
      [] name = "setCalendar" -> setCalendar(a[1], a[2], a[3])
      [] name = "setCalendarExtended" ->
           buildCommand(<<"&", "K", "W", "1">>, a[1] \o a[2] \o a[3] \o a[4] \o a[5] \o a[6]
                                  \o a[7])
      [] name = "manageBlacklist" -> buildCommand(<<"&", "M", "9", "9">>, a[1] \o a[2])

\* fmt.Sprintf("%04s", s), fmt.Sprintf("%06s", s): the 0 flag pads a string
\* with zeros as it pads a number.
FmtZeroPadString(s, width) == FmtZeroPad(s, width)

\* ReadIdentifierFromMemory(position int) of the Go client.
ReadIdentifierFromMemory(position) ==
    LET posStr == FmtZeroPad(FmtInteger(position, 10), 6)
    IN BuildCommand(<<"?", "L", "F">>, posStr)

\* ChangePrice(nozzle, level, price string) of the Go client.
ChangePrice(nozzle, level, price) ==
    LET padded == IF Len(price) < 4 THEN FmtZeroPadString(price, 4) ELSE price
        params == nozzle \o level \o <<"0">> \o padded
    IN BuildCommand(<<"&", "U">>, params)

\* SetPreset(nozzle, value string) of the Go client.
SetPreset(nozzle, value) ==
    LET padded == IF Len(value) < 6 THEN FmtZeroPadString(value, 6) ELSE value
    IN BuildCommand(<<"&", "P">>, nozzle \o padded)

\* The other operations of the Go client, a[i] their i-th argument.
GoCommand(name, a) ==
    CASE name = "ReadSupply52" -> BuildCommand(<<"&", "A">>, <<>>)
      [] name = "ReadSupplyIdentified" -> BuildCommand(<<"&", "A">>, <<>>)
      [] name = "ReadSupplyPAF1" -> BuildCommand(<<"&", "A", "2">>, <<>>)
      [] name = "ReadSupplyPAF2" -> BuildCommand(<<"&", "A", "3">>, <<>>)
      [] name = "ReadMemoryPointers" -> BuildCommand(<<"&", "T", "9", "9">>, <<"P">>)
      [] name = "Increment" -> <<"(", "&", "I", ")">>
      [] name = "GetVisualization" -> <<"(", "&", "V", ")">>
      [] name = "GetVisualizationIdentified" -> BuildCommand(<<"?", "V">>, <<>>)
      [] name = "ReadIdentifier" -> BuildCommand(<<"?", "A">>, <<>>)
      [] name = "ReadIdentifierFromMemory" -> ReadIdentifierFromMemory(a[1])
      [] name = "GetStatus" -> <<"(", "&", "S", ")">>
      [] name = "ReadTotal" -> BuildCommand(<<"&", "T">>, a[1] \o a[2])
      [] name = "ChangePrice" -> ChangePrice(a[1], a[2], a[3])
      [] name = "ReadPrice" ->
           BuildCommand(<<"&", "T">>, a[1] \o (IF a[2] = <<>> THEN <<"U">> ELSE a[2]))
      [] name = "SetPreset" -> SetPreset(a[1], a[2])
      [] name = "SetOperatingMode" -> BuildCommand(<<"&", "M">>, a[1] \o a[2])
      [] name = "ReadCalendar" -> <<"(", "&", "R", ")">>
      [] name = "ReadClockExtended" -> BuildCommand(<<"&", "K", "R", "1">>, <<>>)

\* ---- the arguments the operations are called with
\* Nozzle codes: two hexadecimal characters, and malformed ones.
Nozzles == {<<"0", "8">>, <<"1", "F">>, <<"8">>, <<"1", "2", "3">>, <<"Z", "Z">>}
Levels == {<<"0">>, <<"1">>}
TotalModes == {<<"L">>, <<"$">>}
PriceModes == {<<"U">>, <<>>}
PumpModes == {<<"L">>, <<"B">>}
PointerModes == {<<"C">>, <<"R">>}
\* Decimal numerals of MaxDigits digits or less.
NumeralChars == {"0", "7"}
Numerals == Strings(NumeralChars, MaxDigits) \ {<<>>}
\* Values that are no numerals.
NonNumerals == {<<>>, <<"x">>, <<"7", "a">>, <<"-", "7">>, <<"7", ".", "5">>}
\* The number a numeral denotes.
RECURSIVE ValueOf(_)
ValueOf(s) ==
    IF Len(s) = 0 THEN 0
    ELSE 10 * ValueOf(SubSeq(s, 1, Len(s) - 1))
         + (charCodeAt(s[Len(s)]) - charCodeAt("0"))
\* A JavaScript caller passes a value as a string or as a number.
JsValues ==
    {Str(s) : s \in Numerals \cup NonNumerals}
    \cup {Num(ValueOf(s)) : s \in Numerals}
\* A Go caller passes a string (the REST layer's JSON field) or an int.
GoValues == Numerals \cup NonNumerals
GoInts == {ValueOf(s) : s \in Numerals}
\* An identifier code, and the fields of a clock setting.
Identifier == <<"0", "0", "0", "0", "0", "0", "0", "0", "0", "0", "0", "A", "1", "B", "2", "C">>
Clock == [day |-> <<"0", "1">>, hour |-> <<"1", "2">>, minute |-> <<"3", "0">>, second |-> <<"4", "5">>,
          month |-> <<"1", "1">>, year |-> <<"2", "6">>, weekday |-> <<"0", "2">>]

\* The calls of the Node.js client's operations.
JsOperations ==
    {Applied(name, <<>>) :
       name \in {"readSupply52", "readSupplyIdentified",
                 "readSupplyDualIdentification", "readSupplyPAF1",
                 "readSupplyPAF2", "readMemoryPointers", "increment",
                 "getVisualization", "getVisualizationIdentified",
                 "readIdentifier", "incrementIdentifier",
                 "clearIdentifierMemory", "getStatus", "readCalendar",
                 "readClockExtended"}}
    \cup {Applied("readSupplyPointer", <<m, v>>) :
            m \in PointerModes, v \in JsValues}
    \cup {Applied("recordIdentifier",
                  <<<<"0", "0">>, <<"G">>, Identifier, <<"0", "8", "0", "0">>, <<"1", "2", "0", "0">>, <<"1", "3", "0", "0">>, <<"1", "8", "0", "0">>>>)}
    \cup {Applied("deleteIdentifier", <<<<"0", "0">>, Identifier, <<"0", "0", "0", "0", "0", "0">>>>)}
    \cup {Applied("readIdentifierFromMemory", <<v>>) : v \in JsValues}
    \cup {Applied("readTotal", <<n, m>>) : n \in Nozzles, m \in TotalModes}
    \cup {Applied("changePrice", <<n, l, v>>) :
            n \in Nozzles, l \in Levels, v \in JsValues}
    \cup {Applied("changePriceExtended", <<n, l, v>>) :
            n \in {<<"0", "8">>}, l \in Levels, v \in JsValues}
    \cup {Applied("readPrice", <<n, <<"U">>>>) : n \in Nozzles}
    \cup {Applied("setPreset", <<n, v>>) : n \in Nozzles, v \in JsValues}
    \cup {Applied("setPresetIdentified",
                  <<<<"0", "8">>, Identifier, <<"1">>, <<"S">>, Num(1000), Num(30), <<"$">>>>)}
    \cup {Applied("setOperatingMode", <<n, m>>) :
            n \in Nozzles, m \in PumpModes}
    \cup {Applied("setCalendar", <<Clock.day, Clock.hour, m>>) :
            m \in {Clock.minute, <<"3", "2">>}}
    \cup {Applied("setCalendarExtended",
                  <<Clock.year, Clock.month, Clock.day, Clock.weekday,
                    Clock.hour, Clock.minute, Clock.second>>)}
    \cup {Applied("manageBlacklist", <<m, i>>) :
            m \in {<<"c">>, <<"b">>}, i \in {<<>>, Identifier}}

\* The calls of the Go client's operations.
GoOperations ==
    {Applied(name, <<>>) :
       name \in {"ReadSupply52", "ReadSupplyIdentified", "ReadSupplyPAF1",
                 "ReadSupplyPAF2", "ReadMemoryPointers", "Increment",
                 "GetVisualization", "GetVisualizationIdentified",
                 "ReadIdentifier", "GetStatus", "ReadCalendar",
                 "ReadClockExtended"}}
    \cup {Applied("ReadIdentifierFromMemory", <<n>>) : n \in GoInts}
    \cup {Applied("ReadTotal", <<n, m>>) : n \in Nozzles, m \in TotalModes}
    \cup {Applied("ChangePrice", <<n, l, v>>) :
            n \in Nozzles, l \in Levels, v \in GoValues}
    \cup {Applied("ReadPrice", <<n, m>>) : n \in Nozzles, m \in PriceModes}
    \cup {Applied("SetPreset", <<n, v>>) : n \in Nozzles, v \in GoValues}
    \cup {Applied("SetOperatingMode", <<n, m>>) :
            n \in Nozzles, m \in PumpModes}

\* The operations of the client in use.
Operations == IF impl = "js" THEN JsOperations ELSE GoOperations

\* A caller calls a typed operation: it builds its frame and passes it to
\* sendCommand / SendCommand.
Operate ==
    /\ call \in Operations
    /\ out = Pending
    /\ out' = Sent(IF impl = "js" THEN JsCommand(call.fn, call.on)
                   ELSE GoCommand(call.fn, call.on))
    /\ UNCHANGED <<impl, session, call, mon>>

\* ------------------------------------------------ response interpreters
\* The reply of the device when it has nothing to report.
Sentinel == <<"(", "0", ")">>

\* JavaScript's null, undefined and NaN.
Null == [t |-> "null", v |-> 0]
Undefined == [t |-> "undefined", v |-> 0]
NaN == [t |-> "NaN", v |-> 0]

Min(a, b) == IF a <= b THEN a ELSE b
Max(a, b) == IF a >= b THEN a ELSE b

\* s.substring(start, end): each argument is clamped to 0..s.length and the
\* two are swapped when start is the larger one.
substring(s, start, end) ==
    LET clamp(x) == IF x < 0 THEN 0 ELSE IF x > Len(s) THEN Len(s) ELSE x
    IN SubSeq(s, Min(clamp(start), clamp(end)) + 1,
                 Max(clamp(start), clamp(end)))

\* s[i] of a JavaScript string: undefined outside the string.
charAt(s, i) == IF i < Len(s) THEN Str(<<s[i + 1]>>) ELSE Undefined

\* s[lo:hi] of a Go string, for 0 <= lo <= hi <= len(s).
GoSlice(s, lo, hi) == SubSeq(s, lo + 1, hi)

\* The decimal digits s starts with.
RECURSIVE DigitPrefix(_)
DigitPrefix(s) ==
    IF Len(s) = 0 \/ charCodeAt(Head(s)) \notin 48..57 THEN <<>>
    ELSE <<Head(s)>> \o DigitPrefix(Tail(s))

\* parseInt(s) of a string without leading blanks, sign or 0x prefix: the
\* number written by the digits s starts with, NaN when there is none.
parseInt(s) ==
    IF Len(DigitPrefix(s)) = 0 THEN NaN ELSE Num(ValueOf(DigitPrefix(s)))

\* formatValue(value) of the monitor: (parseInt(value) / 100).toFixed(2)
formatValue(value) ==
    IF parseInt(value) = NaN THEN <<"N", "a", "N">>
    ELSE toString(parseInt(value).v \div 100, 10) \o <<".">>
         \o padStart(toString(parseInt(value).v % 100, 10), 2, "0")

\* What an interpreter hands on (prints, returns or answers with): the kind of
\* the result, the raw text it passes through and the fields it decoded.
Decoded(kind, raw, fields) == [kind |-> kind, raw |-> raw, fields |-> fields]
\* The explicit 'no data' result: a message, null, or a return with no output.
NoData == Decoded("nodata", <<>>, <<>>)
\* The answer {"raw": resp} of a Go handler.
Raw(resp) == Decoded("raw", resp, <<>>)
Field(name, value) == [name |-> name, value |-> value]

\* The slices of a supply body, as every supply interpreter reads them.
SupplyLayout ==
    << [name |-> "totalToPay", from |-> 0, to |-> 6],
       [name |-> "volume", from |-> 6, to |-> 12],
       [name |-> "price", from |-> 12, to |-> 16],
       [name |-> "commaCode", from |-> 16, to |-> 18],
       [name |-> "supplyTime", from |-> 18, to |-> 22],
       [name |-> "nozzle", from |-> 22, to |-> 24],
       [name |-> "day", from |-> 24, to |-> 26],
       [name |-> "hour", from |-> 26, to |-> 28],
       [name |-> "minute", from |-> 28, to |-> 30],
       [name |-> "month", from |-> 30, to |-> 32],
       [name |-> "record", from |-> 32, to |-> 36],
       [name |-> "finalTotal", from |-> 36, to |-> 46],
       [name |-> "status", from |-> 46, to |-> 48] >>

\* The slice of data that field i of the layout names, cut with substring.
SupplySlice(data, i) == substring(data, SupplyLayout[i].from, SupplyLayout[i].to)

\* getStatusDescription(code) of the REST example, the monitor and the Go
\* server.
getStatusDescription(code) ==
    CASE code = "L" -> "Available"
      [] code = "B" -> "Blocked"
      [] code = "C" -> "Finished"
      [] code = "A" -> "Refueling"
      [] code = "E" -> "Waiting"
      [] code = "F" -> "Not Present"
      [] code = "P" -> "Ready"
      [] OTHER -> "Unknown"

\* The switch of the test client's parseStatusResponse.
StatusSwitch(code) ==
    IF code = "F" THEN "Not present" ELSE getStatusDescription(code)

\* The 0-based indexes i of statusCodes, in order.
Indexes(statusCodes) == [i \in 1..Len(statusCodes) |-> i - 1]

\* (i + 1).toString(16).padStart(2, '0').toUpperCase()
NozzleHex(i) == toUpperCase(padStart(toString(i + 1, 16), 2, "0"))

\* ---- the interactive test client
\* parseSupplyResponse(response): what it prints.
parseSupplyResponse(response) ==
    IF response = Sentinel THEN NoData
    ELSE LET data == substring(response, 1, Len(response) - 3)
             shown(n) == [i \in 1..n |->
                            Field(SupplyLayout[i].name, Str(SupplySlice(data, i)))]
         IN Decoded("record", <<>>,
                    IF Len(data) >= 34
                    THEN (IF Len(data) >= 52 THEN shown(13) ELSE shown(9))
                    ELSE <<>>)

\* parseSupplyIdentifiedResponse(response): what it prints.
parseSupplyIdentifiedResponse(response) ==
    IF response = Sentinel THEN NoData
    ELSE LET data == substring(response, 2, Len(response) - 3)
         IN Decoded("record", <<>>,
                    IF Len(data) >= 70
                    THEN << Field("total", Str(substring(data, 0, 6))),
                            Field("volume", Str(substring(data, 6, 12))),
                            Field("price", Str(substring(data, 12, 16))),
                            Field("nozzle", Str(substring(data, 22, 24))),
                            Field("identifier", Str(substring(data, 50, 66))) >>
                    ELSE <<>>)

\* parseVisualizationResponse(response): one line for every i = 0, 8, 16, ...
\* below data.length.
parseVisualizationResponse(response) ==
    IF response = Sentinel THEN NoData
    ELSE LET data == substring(response, 1, Len(response) - 1)
         IN Decoded("list", <<>>,
                    [k \in 1..((Len(data) + 7) \div 8) |->
                       [nozzle |-> Str(substring(data, 8 * (k - 1), 8 * (k - 1) + 2)),
                        value |-> Str(substring(data, 8 * (k - 1) + 2, 8 * (k - 1) + 8))]])

\* parseStatusResponse(response): the raw status and one line for every
\* position whose code is not F.
parseStatusResponse(response) ==
    LET data == substring(response, 1, Len(response) - 1)
        statusCodes == substring(data, 1, 33)
        shown == SelectSeq(Indexes(statusCodes),
                           LAMBDA i : statusCodes[i + 1] # "F")
    IN Decoded("list", data,
               [k \in 1..Len(shown) |->
                  [position |-> shown[k] + 1,
                   statusCode |-> statusCodes[shown[k] + 1],
                   status |-> StatusSwitch(statusCodes[shown[k] + 1])]])

\* parseTotalResponse(response): what it prints.
parseTotalResponse(response) ==
    LET data == substring(response, 1, Len(response) - 3)
    IN Decoded("record", <<>>,
               IF Len(data) >= 10
               THEN << Field("mode", charAt(data, 0)),
                       Field("nozzle", Str(substring(data, 1, 3))),
                       Field("value", Str(substring(data, 3, 11))) >>
               ELSE <<>>)

\* ---- the REST example
\* parseStatus(response)
parseStatus(response) ==
    LET data == substring(response, 1, Len(response) - 1)
        statusCodes == substring(data, 1, Min(33, Len(data) - 10))
        pushed == SelectSeq(Indexes(statusCodes),
                            LAMBDA i : statusCodes[i + 1] # "F")
    IN Decoded("list", <<>>,
               [k \in 1..Len(pushed) |->
                  [position |-> pushed[k] + 1,
                   nozzle |-> NozzleHex(pushed[k]),
                   statusCode |-> statusCodes[pushed[k] + 1],
                   status |-> getStatusDescription(statusCodes[pushed[k] + 1])]])

\* The fields parseSupply passes through parseInt.
IntFields ==
    {"totalToPay", "volume", "price", "supplyTime", "day", "hour", "minute",
     "month", "record"}

\* parseSupply(response): the first nine fields always, each of the other four
\* when data reaches the end of its slice, null otherwise.
parseSupply(response) ==
    LET data == substring(response, 1, Len(response) - 3)
        read(i) == IF SupplyLayout[i].name \in IntFields
                   THEN parseInt(SupplySlice(data, i))
                   ELSE Str(SupplySlice(data, i))
    IN Decoded("record", <<>>,
               [i \in 1..13 |->
                  Field(SupplyLayout[i].name,
                        IF i <= 9 \/ Len(data) >= SupplyLayout[i].to
                        THEN read(i) ELSE Null)])

\* parseVisualization(response): an entry for every whole window of 8.
parseVisualization(response) ==
    LET data == substring(response, 1, Len(response) - 1)
    IN Decoded("list", <<>>,
               [k \in 1..(Len(data) \div 8) |->
                  [nozzle |-> Str(substring(data, 8 * (k - 1), 8 * (k - 1) + 2)),
                   value |-> parseInt(substring(data, 8 * (k - 1) + 2, 8 * (k - 1) + 8))]])

\* parseTotal(response): data.substring(3) runs to the end of data.
parseTotal(response) ==
    LET data == substring(response, 1, Len(response) - 3)
    IN Decoded("record", <<>>,
               << Field("mode", charAt(data, 0)),
                  Field("nozzle", Str(substring(data, 1, 3))),
                  Field("value", Str(substring(data, 3, Len(data)))) >>)

\* The paths of handleGetRequest whose answer is decoded from a response.
Paths == {"/status", "/supply", "/visualization", "/total/08/L"}

\* handleGetRequest(path, query, res), from the response the client returned
\* to the answer passed to sendSuccess.
handleGetRequest(path, response) ==
    CASE path = "/status" -> parseStatus(response)
      [] path = "/supply" ->
           IF response = Sentinel THEN NoData ELSE parseSupply(response)
      [] path = "/visualization" ->
           IF response = Sentinel THEN Decoded("list", <<>>, <<>>)
           ELSE parseVisualization(response)
      [] OTHER -> parseTotal(response)

\* ---- the monitor
\* parseAndDisplayStatus(response): the nozzles it prints.
parseAndDisplayStatus(response) ==
    IF Len(response) < 5 THEN NoData
    ELSE LET data == substring(response, 1, Len(response) - 1)
             statusCodes == substring(data, 1, Min(33, Len(data) - 10))
             activeNozzles ==
                 SelectSeq(Indexes(statusCodes),
                           LAMBDA i : statusCodes[i + 1] \notin {"F", "L", "B"})
         IN Decoded("list", <<>>,
                    [k \in 1..Len(activeNozzles) |->
                       [position |-> activeNozzles[k] + 1,
                        nozzle |-> NozzleHex(activeNozzles[k]),
                        status |-> getStatusDescription(statusCodes[activeNozzles[k] + 1])]])

\* parseAndDisplayVisualization(response): the lines it prints.
parseAndDisplayVisualization(response) ==
    IF response = Sentinel THEN NoData
    ELSE LET data == substring(response, 1, Len(response) - 1)
         IN Decoded("list", <<>>,
                    [k \in 1..(Len(data) \div 8) |->
                       [nozzle |-> Str(substring(data, 8 * (k - 1), 8 * (k - 1) + 2)),
                        value |-> Str(formatValue(substring(data, 8 * (k - 1) + 2, 8 * (k - 1) + 8)))]])

\* parseSupplyRecord(response): thirteen slices, whatever the length of data.
parseSupplyRecord(response) ==
    LET data == substring(response, 1, Len(response) - 3)
    IN Decoded("record", <<>>,
               [i \in 1..13 |->
                  Field(SupplyLayout[i].name, Str(SupplySlice(data, i)))])

\* The body of a tick of monitorSupplies, from the response to the record.
monitorSupplies(response) ==
    IF response # Sentinel THEN parseSupplyRecord(response) ELSE NoData

\* The body of a tick of monitorVisualization whose response has changed.
monitorVisualization(response) ==
    IF response # Sentinel THEN parseAndDisplayVisualization(response)
    ELSE NoData

\* ---- the Go REST server
\* handleStatus, from the response on.
handleStatus(resp) ==
    IF Len(resp) < 3 THEN Raw(resp)
    ELSE LET data == GoSlice(resp, 1, Len(resp) - 1)
         IN IF Len(data) < 2 THEN Raw(resp)
            ELSE LET rest == GoSlice(data, 1, Len(data))
                     statusCodes == IF Len(rest) > 32 THEN GoSlice(rest, 0, 32)
                                    ELSE rest
                     appended == SelectSeq(Indexes(statusCodes),
                                           LAMBDA i : statusCodes[i + 1] # "F")
                 IN Decoded("list", <<>>,
                            [k \in 1..Len(appended) |->
                               [position |-> appended[k] + 1,
                                nozzle |-> FmtZeroPad(FmtInteger(appended[k] + 1, 16), 2),
                                statusCode |-> statusCodes[appended[k] + 1],
                                status |-> getStatusDescription(statusCodes[appended[k] + 1])]])

\* handleSupply, from the response on.
handleSupply(resp) ==
    IF resp = Sentinel THEN NoData
    ELSE IF Len(resp) < 4 THEN Raw(resp)
    ELSE LET data == GoSlice(resp, 1, Len(resp) - 3)
             parsed(n) == [i \in 1..n |->
                             Field(SupplyLayout[i].name,
                                   Str(GoSlice(data, SupplyLayout[i].from,
                                               SupplyLayout[i].to)))]
         IN Decoded("record", <<>>,
                    IF Len(data) >= 30 THEN parsed(9)
                    ELSE IF Len(data) >= 24 THEN parsed(6)
                    ELSE <<>>)

\* handleVisualization, from the response on.
handleVisualization(resp) ==
    IF resp = Sentinel THEN Decoded("list", <<>>, <<>>)
    ELSE IF Len(resp) < 2 THEN Raw(resp)
    ELSE LET data == GoSlice(resp, 1, Len(resp) - 1)
         IN Decoded("list", <<>>,
                    [k \in 1..(Len(data) \div 8) |->
                       [nozzle |-> Str(GoSlice(data, 8 * (k - 1), 8 * (k - 1) + 2)),
                        value |-> Str(GoSlice(data, 8 * (k - 1) + 2, 8 * (k - 1) + 8))]])

\* handleTotal, from the response on.
handleTotal(resp) ==
    IF Len(resp) < 4 THEN Raw(resp)
    ELSE LET data == GoSlice(resp, 1, Len(resp) - 3)
         IN Decoded("record", resp,
                    IF Len(data) >= 3
                    THEN << Field("mode", Str(GoSlice(data, 0, 1))),
                            Field("nozzle", Str(GoSlice(data, 1, 3))),
                            Field("value", Str(GoSlice(data, 3, Len(data)))) >>
                    ELSE <<>>)

\* ---- the responses the interpreters are applied to
\* A body of n decimal digits.
Digits(n) == [i \in 1..n |-> Ascii[17 + (i % 10)]]

\* A supply response: the body, two checksum characters and the delimiters.
SupplyResponses ==
    {<<"(">> \o Digits(n) \o <<"5", "A", ")">> :
        n \in {0, 23, 24, 29, 30, 31, 33, 34, 36, 47, 48, 51, 52, 75}}

\* A visualization response: windows of a nozzle and a value.
VisualizationResponses ==
    {<<"(">> \o SubSeq(<<"0", "8", "0", "1", "0", "0", "0", "0",
                         "1", "2", "5", "0", "0", "0", "2", "0">>, 1, n)
            \o <<")">> : n \in {0, 7, 8, 12, 16}}

\* The status codes of n positions: position 5 is refueling, position 9 is
\* not present.
StatusCodes(n) ==
    [i \in 1..n |->
       CASE i = 5 -> "A"
         [] i = 9 -> "F"
         [] i % 4 = 0 -> "B"
         [] i % 7 = 0 -> "x"
         [] i = 32 -> "P"
         [] OTHER -> "L"]

\* A status response: the tag S, the codes and what follows them.
StatusResponses ==
    {<<"(", "S">> \o StatusCodes(n) \o Digits(m) \o <<")">> :
        n \in {2, 12, 32}, m \in {0, 10}}

\* A total response: mode, nozzle, value and checksum.
TotalResponses ==
    {<<"(", "L", "0", "8">> \o Digits(n) \o <<"5", "A", ")">> :
        n \in {0, 6, 8, 10}}
    \cup {<<"(", "L", "5", "A", ")">>}

\* Every response an interpreter is applied to.
DeviceResponses ==
    {Sentinel, <<>>, <<"(">>, <<"(", ")">>, <<"(", "1", ")">>}
    \cup SupplyResponses \cup VisualizationResponses
    \cup StatusResponses \cup TotalResponses

\* The interpreters of the Node.js programs and of the Go server.
JsInterpreters ==
    {"parseSupplyResponse", "parseSupplyIdentifiedResponse",
     "parseVisualizationResponse", "parseStatusResponse",
     "parseTotalResponse", "monitorStatus", "monitorSupplies",
     "monitorVisualization"}
GoInterpreters ==
    {"handleStatus", "handleSupply", "handleVisualization", "handleTotal"}

\* The interpreter fn applied to its arguments.
JsInterpret(fn, on) ==
    CASE fn = "parseSupplyResponse" -> parseSupplyResponse(on[1])
      [] fn = "parseSupplyIdentifiedResponse" -> parseSupplyIdentifiedResponse(on[1])
      [] fn = "parseVisualizationResponse" -> parseVisualizationResponse(on[1])
      [] fn = "parseStatusResponse" -> parseStatusResponse(on[1])
      [] fn = "parseTotalResponse" -> parseTotalResponse(on[1])
      [] fn = "monitorStatus" -> parseAndDisplayStatus(on[1])
      [] fn = "monitorSupplies" -> monitorSupplies(on[1])
      [] fn = "monitorVisualization" -> monitorVisualization(on[1])
      [] fn = "handleGetRequest" -> handleGetRequest(on[1], on[2])
GoInterpret(fn, on) ==
    CASE fn = "handleStatus" -> handleStatus(on[1])
      [] fn = "handleSupply" -> handleSupply(on[1])
      [] fn = "handleVisualization" -> handleVisualization(on[1])
      [] fn = "handleTotal" -> handleTotal(on[1])

\* The interpretations of the program in use.
Interpretations ==
    IF impl = "js"
    THEN {Applied(fn, <<response>>) :
            fn \in JsInterpreters, response \in DeviceResponses}
         \cup {Applied("handleGetRequest", <<path, response>>) :
                 path \in Paths, response \in DeviceResponses}
    ELSE {Applied(fn, <<response>>) :
            fn \in GoInterpreters, response \in DeviceResponses}

\* The names of the interpreters of the program in use.
Interpreters ==
    IF impl = "js" THEN JsInterpreters \cup {"handleGetRequest"}
    ELSE GoInterpreters

\* Handlers that cut resp[1 : len(resp)-3] and data[1:3] without testing a
\* length first.
SliceUnchecked(fn, resp) == Len(resp) < 4 \/ Len(resp) - 4 < 3

\* The slice expressions handler fn evaluates on resp, each as <<length of the
\* string sliced, low, high>>, following the handler's length tests; the Go
\* runtime panics when one of them is not 0 <= low <= high <= length.
SliceOutOfRange(fn, resp) ==
    LET n == Len(resp)
        slices ==
          CASE fn = "handleStatus" ->
                 IF n < 3 THEN {}
                 ELSE {<<n, 1, n - 1>>}
                      \cup (IF n - 2 < 2 THEN {}
                            ELSE {<<n - 2, 1, n - 2>>}
                                 \cup (IF n - 3 > 32 THEN {<<n - 3, 0, 32>>}
                                       ELSE {}))
            [] fn = "handleSupply" ->
                 IF resp = Sentinel \/ n < 4 THEN {}
                 ELSE {<<n, 1, n - 3>>}
                      \cup {<<n - 4, SupplyLayout[i].from, SupplyLayout[i].to>> :
                              i \in (IF n - 4 >= 24 THEN 1..6 ELSE {})
                                    \cup (IF n - 4 >= 30 THEN 7..9 ELSE {})}
            [] fn = "handleVisualization" ->
                 IF resp = Sentinel \/ n < 2 THEN {}
                 ELSE {<<n, 1, n - 1>>}
                      \cup UNION {{<<n - 2, 8 * (k - 1), 8 * (k - 1) + 2>>,
                                   <<n - 2, 8 * (k - 1) + 2, 8 * (k - 1) + 8>>} :
                                    k \in 1..((n - 2) \div 8)}
            [] fn = "handleTotal" ->
                 IF n < 4 THEN {}
                 ELSE {<<n, 1, n - 3>>}
                      \cup (IF n - 4 >= 3
                            THEN {<<n - 4, 0, 1>>, <<n - 4, 1, 3>>,
                                  <<n - 4, 3, n - 4>>}
                            ELSE {})
    IN \E sl \in slices : ~(0 <= sl[2] /\ sl[2] <= sl[3] /\ sl[3] <= sl[1])

\* A program interprets the response a send call returned; a Go handler that
\* slices out of range panics instead of answering.
Interpret ==
    /\ call.fn \in Interpreters
    /\ out = Pending
    /\ out' = (IF impl = "js" THEN Returned(JsInterpret(call.fn, call.on))
               ELSE IF SliceOutOfRange(call.fn, call.on[1])
                    THEN [st |-> "panic", val |-> call.on[1]]
                    ELSE Returned(GoInterpret(call.fn, call.on)))
    /\ UNCHANGED <<impl, session, call, mon>>

\* ---- the monitor's supply loop
\* The reply to readSupply52 for record r: a body of 52 characters whose
\* record field, body[32:36], is r.
Supply(r) ==
    <<"(">> \o Digits(32) \o padStart(toString(r, 10), 4, "0") \o Digits(16)
            \o <<"5", "A", ")">>

\* The timer of monitorSupplies fires: the tick calls readSupply52, which
\* writes its frame and waits for the next "data" event.
MonTick ==
    /\ \E t \in 1..MaxTicks :
         /\ mon.tick[t] = "wait"
         /\ \A u \in 1..(t - 1) : mon.tick[u] # "wait"
         /\ mon' = [mon EXCEPT !.tick[t] = "read",
                               !.sent = Append(@, [tick |-> t, kind |-> "read"]),
                               !.listeners = Append(@, t)]
    /\ UNCHANGED <<impl, session, call, out>>

\* The device handles the oldest frame it was sent: a read is answered with
\* the record under its pointer, "(0)" when there is none; an increment moves
\* the pointer on and is acknowledged, with "(0)" or with another short frame.
MonDevice ==
    /\ mon.sent # <<>>
    /\ \E ack \in {Sentinel, <<"(", "I", ")">>} :
         mon' = [mon EXCEPT
                   !.sent = Tail(@),
                   !.pointer = IF Head(mon.sent).kind = "increment"
                                  /\ @ < MaxRecords THEN @ + 1 ELSE @,
                   !.inbound = Append(@,
                       IF Head(mon.sent).kind = "increment" THEN ack
                       ELSE IF mon.pointer < MaxRecords THEN Supply(mon.pointer + 1)
                       ELSE Sentinel)]
    /\ UNCHANGED <<impl, session, call, out>>

\* A loop that never records the supply it has notified.
RECURSIVE Forgets(_, _, _)
Forgets(m, ls, supply) ==
    IF ls = <<>> THEN m
    ELSE LET t == Head(ls)
             record == parseSupplyRecord(supply).fields[11].value.v
         IN Forgets(
              IF m.tick[t] = "read"
              THEN IF supply # Sentinel /\ (m.last = <<>> \/ m.last[1] # record)
                   THEN [m EXCEPT !.tick[t] = "increment",
                                  !.notified = @ + 1,
                                  !.sent = Append(@, [tick |-> t, kind |-> "increment"]),
                                  !.listeners = Append(@, t)]
                   ELSE [m EXCEPT !.tick[t] = "done"]
              ELSE IF m.tick[t] = "increment" THEN [m EXCEPT !.tick[t] = "done"]
              ELSE m,
              Tail(ls), supply)

\* The calls waiting in ls resume, one after the other, with the chunk
\* `supply`. A tick that awaited readSupply52 runs the rest of its body: for a
\* response that is not "(0)" and whose record differs from the last one it
\* calls onNewSupply, records the supply and calls increment, which writes its
\* frame and waits; otherwise it ends. A tick that awaited increment ends. The
\* listener of a call that has timed out resolves a settled promise.
RECURSIVE Resolve(_, _, _)
Resolve(m, ls, supply) ==
    IF ls = <<>> THEN m
    ELSE LET t == Head(ls)
             record == parseSupplyRecord(supply).fields[11].value.v
         IN Resolve(
              IF m.tick[t] = "read"
              THEN IF supply # Sentinel /\ (m.last = <<>> \/ m.last[1] # record)
                   THEN [m EXCEPT !.tick[t] = "increment",
                                  !.last = <<record>>,
                                  !.notified = @ + 1,
                                  !.sent = Append(@, [tick |-> t, kind |-> "increment"]),
                                  !.listeners = Append(@, t)]
                   ELSE [m EXCEPT !.tick[t] = "done"]
              ELSE IF m.tick[t] = "increment" THEN [m EXCEPT !.tick[t] = "done"]
              ELSE m,
              Tail(ls), supply)

\* A "data" event: every once("data") listener runs with the chunk and is
\* removed, and the calls they resolve resume before the next event.
MonData ==
    /\ mon.inbound # <<>>
    /\ mon' = Resolve([mon EXCEPT !.inbound = Tail(@), !.listeners = <<>>],
                      mon.listeners, Head(mon.inbound))
    /\ UNCHANGED <<impl, session, call, out>>

\* The 5000 ms timer of the command tick t awaits fires: the call rejects and
\* the tick's catch logs the error; the listener stays.
MonTimeout(t) ==
    /\ mon.tick[t] \in {"read", "increment"}
    /\ mon' = [mon EXCEPT !.tick[t] = "failed"]
    /\ UNCHANGED <<impl, session, call, out>>

\* The monitor after start(), its client connected.
MonInit ==
    /\ impl = "js"
    /\ SessionInit
    /\ call = NoApplication
    /\ out = Pending

MonNext ==
    \/ MonTick
    \/ MonDevice
    \/ MonData
    \/ \E t \in 1..MaxTicks : MonTimeout(t)

\* The supply loop of the monitor and the device, ticks overlapping freely.
MonitorSpec == MonInit /\ [][MonNext]_vars

\* ---- the strip of a response frame
\* const data = response.substring(1, response.length - 1 - trailingCount):
\* the body the Node.js interpreters decode, trailingCount being 2 where a
\* checksum precedes the closing delimiter and 0 where none does.
Data(response, trailingCount) ==
    Returned(substring(response, 1, Len(response) - 1 - trailingCount))

\* The body the Go handlers decode: data := resp[1 : len(resp)-1-trailingCount]
\* behind the guard that answers {"raw": resp} for a shorter response
\* (len(resp) < 4 in handleSupply and handleTotal, len(resp) < 2 in
\* handleVisualization).
GoData(resp, trailingCount) ==
    IF Len(resp) < trailingCount + 2 THEN [st |-> "raw", val |-> resp]
    ELSE Returned(GoSlice(resp, 1, Len(resp) - 1 - trailingCount))

\* An interpreter strips the response it was given.
Strip ==
    /\ call.fn = "data"
    /\ out = Pending
    /\ out' = (IF impl = "js" THEN Data(call.on[1], call.on[2])
               ELSE GoData(call.on[1], call.on[2]))
    /\ UNCHANGED <<impl, session, call, mon>>

\* The applications of the codec a behaviour may start from.
Applications ==
    {Applied("calculateChecksum", <<command>>) : command \in Bodies}
    \cup {Applied("buildCommand", <<header, parameters>>) :
            header \in Headers, parameters \in Parameters}
    \cup Operations
    \cup Interpretations
    \cup {Applied("data", <<response, trailingCount>>) :
            response \in DeviceResponses, trailingCount \in {0, 2}}

\* A fresh session, and a codec function about to be applied to its arguments.
CodecInit ==
    /\ impl \in Impls
    /\ SessionInit
    /\ call \in Applications
    /\ out = Pending

CodecNext ==
    \/ Checksum
    \/ Build
    \/ Operate
    \/ Interpret
    \/ Strip

\* The codec applied to inputs of the caller's choice, with no session activity.
CodecSpec == CodecInit /\ [][CodecNext]_vars

\* ------------------------------------------------------------ the claims
\* This step is a call made by c.
Calls(c) == ops'.n = ops.n + 1 /\ ops'.by = c
\* A send call that has written its frame and whose read has not completed.
InFlight(c) == pc[c] \in {"send_wait", "SendCommand.Read"}
\* Caller c is inside a send call.
InSend(c) ==
    \/ pc[c] \in {"send_wait", "SendCommand.Lock", "SendCommand.Body",
                  "SendCommand.Read"}
    \/ frame[c] # "top"
\* This step ends a send call of c.
SendReturns(c) == InSend(c) /\ pc'[c] = "idle"
\* This step is the one in which c's send call tests the connected flag.
SendTests(c) ==
    \/ impl = "js" /\ Calls(c) /\ ret'[c].op = "send"
    \/ impl = "go" /\ pc[c] = "SendCommand.Body" /\ pc'[c] # pc[c]
\* This step ends a disconnect call of c.
DisconnectReturns(c) ==
    \/ impl = "js" /\ Calls(c) /\ ret'[c].op = "disconnect"
    \/ impl = "go" /\ pc[c] = "Disconnect.Body" /\ frame[c] = "top"
                   /\ pc'[c] = "idle"
\* The socket of c's call is closed and the session is not Connected on it.
TornDown(c) ==
    /\ sock'[cur'[c].sock].st = "closed"
    /\ ~(connected' /\ conn' = cur'[c].sock)
\* Caller c waits in Disconnect for the mutex it holds itself.
SelfBlocked(c) == pc[c] = "Disconnect.Lock" /\ mu = c

\* C1: two simultaneous send calls on one session never interleave on the
\* wire: no call writes its frame while another call, having written, still
\* waits for its reply, so at most one call is in flight at any time.
C1_NoInterleave == Cardinality({c \in Callers : InFlight(c)}) <= 1

\* C2: a send that hits a write error or a read error returns an error to its
\* caller with the socket closed and the session Disconnected; it is never
\* left waiting, and never returns a success.
C2_FaultTearsDown ==
    [][\A c \in Callers :
         /\ (SendReturns(c) /\ cur'[c].fault \in {"write", "read"})
               => (ret'[c].st = "err" /\ TornDown(c))
         /\ ~SelfBlocked(c)']_vars

\* C3: a send whose reply does not arrive within the deadline fails with a
\* Timeout error, and the session is then not Connected, its socket closed.
C3_TimeoutDisconnects ==
    [][\A c \in Callers :
         (SendReturns(c) /\ cur'[c].fault = "timeout")
            => (ret'[c].st = "err" /\ ret'[c].err = "Timeout" /\ TornDown(c))]_vars

C5_ConnectIdempotent ==
    [][connected =>
         /\ \A s \in SockIds : Free(s) => sock'[s].st = "free"
         /\ connected' => conn' = conn]_vars

\* C6: disconnect is idempotent and total: from any session state every call
\* of it completes, leaving the socket closed and the session Disconnected.
C6_DisconnectTotal ==
    [][\A c \in Callers :
         /\ DisconnectReturns(c)
               => /\ ~connected'
                  /\ conn # 0 => sock'[conn].st = "closed"
         /\ ~SelfBlocked(c)']_vars

\* C7: the session becomes Connected only by a caller's connect that
\* succeeded: a failed connect leaves it not Connected, and after an error or
\* a disconnect it is Connected again only through a connect called since.
C7_NoReconnect ==
    [][/\ (~connected /\ connected')
            => \E s \in SockIds : /\ sock[s].st # "open"
                                  /\ sock'[s].st = "open"
                                  /\ sock'[s].fresh
       /\ \A c \in Callers :
            (ret'[c] # ret[c] /\ ret'[c].err = "ConnectError") => ~connected']_vars

\* C8: a session holds at most one open TCP connection at any time.
C8_OneConnection == Cardinality({s \in SockIds : sock[s].st = "open"}) <= 1

\* C9: a send that returns successfully returns a complete response frame,
\* one that ends with the closing delimiter ')'.
C9_CompleteFrame ==
    \A c \in Callers :
       (ret[c].op \in {"send", "SendCommand"} /\ ret[c].st = "ok")
          => /\ ret[c].data # <<>>
             /\ ret[c].data[Len(ret[c].data)] = Closer

\* C10: each received response is delivered to exactly one send call: no chunk
\* of data received from the device is in the results of two send calls.
C10_ExclusiveResponse ==
    \A c, d \in Callers :
       c # d => ret[c].chunks \cap ret[d].chunks = {}


\* C11: isConnected is a non-blocking status read: no call of it waits while
\* another caller's send is in flight or another caller's connect is dialing.
C11_StatusNonBlocking ==
    \A c \in Callers :
       ~(/\ pc[c] = "IsConnected.Lock"
         /\ mu # 0 /\ mu # c
         /\ pc[mu] \in {"SendCommand.Read", "Connect.Body"})

\* C12: the core never retries: each send call writes its frame to the
\* socket at most once, whether it succeeds, times out or fails.
C12_NoRetry == \A k \in CallIds : writes[k] <= 1

\* Witness of C12: a send call wrote its frame once and has ended with an
\* error, its reply not having come.
C12_Witness ==
    \E c \in Callers :
       /\ pc[c] = "idle"
       /\ ret[c].op \in {"send", "SendCommand"} /\ ret[c].st = "err"
       /\ cur[c].id # 0
       /\ writes[cur[c].id] = 1

\* The sum of the character codes of string s.
RECURSIVE SumOfCodes(_)
SumOfCodes(s) ==
    IF Len(s) = 0 THEN 0 ELSE charCodeAt(Head(s)) + SumOfCodes(Tail(s))
\* s[1:], string s without its first character.
Rest(s) == IF Len(s) = 0 THEN <<>> ELSE Tail(s)
\* Byte b as two uppercase hexadecimal digits, zero-padded on the left.
HexByte(b) ==
    LET hex == <<"0", "1", "2", "3", "4", "5", "6", "7", "8", "9",
                 "A", "B", "C", "D", "E", "F">>
    IN <<hex[(b \div 16) + 1], hex[(b % 16) + 1]>>
\* The checksum of frame body s as the specification defines it.
ChecksumOf(s) == HexByte(SumOfCodes(Rest(s)) % 256)

\* C13: for every ASCII string s passed as a frame body, calculateChecksum(s)
\* is the sum of the character codes of s[1:] modulo 256 as exactly two
\* uppercase hexadecimal digits, zero-padded on the left.
C13_Checksum ==
    (call.fn = "calculateChecksum" /\ out # Pending)
       => (out.st = "ok" /\ out.val = ChecksumOf(call.on[1]))

\* Witness of C13: calculateChecksum applied to the body "(&T08L" gave "2E".
C13_Witness ==
    /\ call = Applied("calculateChecksum", <<<<"(", "&", "T", "0", "8", "L">>>>)
    /\ out = Returned(<<"2", "E">>)

\* C14: for every header and parameter string, buildCommand(header,
\* parameters) is "(" + header + parameters + checksum + ")", the checksum
\* being the two uppercase hexadecimal digits of "(" + header + parameters.
C14_BuildCommand ==
    (call.fn = "buildCommand" /\ out # Pending) =>
       LET body == <<"(">> \o call.on[1] \o call.on[2]
           cmd == out.val
       IN /\ out.st = "ok"
          /\ cmd = body \o ChecksumOf(body) \o <<")">>
          /\ Head(cmd) = "(" /\ cmd[Len(cmd)] = ")"
          /\ SubSeq(cmd, Len(cmd) - 2, Len(cmd) - 1) = ChecksumOf(body)

\* Witness of C14: buildCommand("&T", "08L") gave "(&T08L2E)".
C14_Witness ==
    /\ call = Applied("buildCommand", <<<<"&", "T">>, <<"0", "8", "L">>>>)
    /\ out = Returned(<<"(", "&", "T", "0", "8", "L", "2", "E", ")">>)

\* The frames sent verbatim, without a checksum, and the operations (increment,
\* visualization, status, calendar read) that send them.
LiteralFrames == {<<"(", "&", "I", ")">>, <<"(", "&", "V", ")">>, <<"(", "&", "S", ")">>, <<"(", "&", "R", ")">>}
LiteralOperations == {"increment", "getVisualization", "getStatus",
                      "readCalendar", "Increment", "GetVisualization",
                      "GetStatus", "ReadCalendar"}
\* Frame cmd ends with the checksum of its body and the closing delimiter.
Checksummed(cmd) ==
    /\ Len(cmd) >= 4
    /\ cmd[Len(cmd)] = ")"
    /\ SubSeq(cmd, Len(cmd) - 2, Len(cmd) - 1)
          = ChecksumOf(SubSeq(cmd, 1, Len(cmd) - 3))
\* A typed operation has been called and has passed its frame on.
Operated == call \in Operations /\ out # Pending

\* C15: every frame a typed operation writes follows the wire grammar: it is
\* one of the four literal frames, sent by increment, visualization, status or
\* calendar read, or it ends with the checksum of its body followed by ')'.
C15_WireGrammar ==
    Operated =>
       IF call.fn \in LiteralOperations
       THEN out.val \in LiteralFrames
       ELSE Checksummed(out.val)

\* s is a decimal numeral: one digit or more, digits only.
IsNumeral(s) ==
    /\ Len(s) >= 1
    /\ \A i \in 1..Len(s) : charCodeAt(s[i]) \in 48..57
\* s is a nozzle code: exactly two hexadecimal characters.
IsNozzle(s) ==
    /\ Len(s) = 2
    /\ \A i \in 1..2 : \/ charCodeAt(s[i]) \in 48..57
                       \/ charCodeAt(s[i]) \in 65..70
                       \/ charCodeAt(s[i]) \in 97..102
\* The operations that take a nozzle code as their first argument.
NozzleOperations ==
    {"readTotal", "changePrice", "changePriceExtended", "readPrice",
     "setPreset", "setOperatingMode", "ReadTotal", "ChangePrice", "ReadPrice",
     "SetPreset", "SetOperatingMode"}
\* The operations with a numeric field: the argument that holds the value, the
\* field's width, and the header and parameters that precede the field.
NumericOperations ==
    {"setPreset", "changePrice", "readIdentifierFromMemory",
     "readSupplyPointer", "SetPreset", "ChangePrice",
     "ReadIdentifierFromMemory"}
NumericField(c) ==
    CASE c.fn \in {"setPreset", "SetPreset"} ->
           [arg |-> 2, width |-> 6, before |-> <<"&", "P">> \o c.on[1]]
      [] c.fn \in {"changePrice", "ChangePrice"} ->
           [arg |-> 3, width |-> 4,
            before |-> <<"&", "U">> \o c.on[1] \o c.on[2] \o <<"0">>]
      [] c.fn \in {"readIdentifierFromMemory", "ReadIdentifierFromMemory"} ->
           [arg |-> 1, width |-> 6, before |-> <<"?", "L", "F">>]
      [] c.fn = "readSupplyPointer" ->
           [arg |-> 2, width |-> 4, before |-> <<"&", "L">> \o c.on[1]]
\* The decimal form of the value call c passes for its numeric field.
RECURSIVE DecimalOf(_)
DecimalOf(n) ==
    IF n < 10 THEN <<Ascii[n + 17]>>
    ELSE DecimalOf(n \div 10) \o <<Ascii[(n % 10) + 17]>>
ValueGiven(c) ==
    LET x == c.on[NumericField(c).arg]
    IN IF c.fn = "ReadIdentifierFromMemory" THEN DecimalOf(x)
       ELSE IF c.fn \in {"SetPreset", "ChangePrice"} THEN x
       ELSE IF x.t = "number" THEN DecimalOf(x.v) ELSE x.v
\* The value fits its field.
Fits(c) ==
    IsNumeral(ValueGiven(c)) /\ Len(ValueGiven(c)) <= NumericField(c).width
\* Call c has a malformed parameter.
Malformed(c) ==
    \/ c.fn \in NozzleOperations /\ ~IsNozzle(c.on[1])
    \/ c.fn \in NumericOperations /\ ~Fits(c)

\* C16: an operation given a malformed parameter (a nozzle code that is not
\* two hexadecimal characters, a value that is not numeric or has more digits
\* than its field) fails with InvalidParameter and passes no frame on.
C16_InvalidParameter ==
    (Operated /\ Malformed(call)) => out.st = "InvalidParameter"

\* The numeric field of the frame in out: what stands between the header and
\* leading parameters and the checksum.
FieldSent ==
    SubSeq(out.val, Len(NumericField(call).before) + 2, Len(out.val) - 3)

\* C17: setPreset, changePrice, readIdentifierFromMemory and readSupplyPointer
\* encode every value whose decimal form fits the field in exactly the field's
\* width (6, 4, 6 and 4 digits), zero-padded on the left, and the digits
\* denote the same number as the value.
C17_FixedWidth ==
    (Operated /\ call.fn \in NumericOperations /\ Fits(call)) =>
       /\ out.st = "send"
       /\ SubSeq(out.val, 1, Len(NumericField(call).before) + 1)
             = <<"(">> \o NumericField(call).before
       /\ Len(FieldSent) = NumericField(call).width
       /\ IsNumeral(FieldSent)
       /\ ValueOf(FieldSent) = ValueOf(ValueGiven(call))

\* Witness of C17: setPreset was given the number 7 and sent "000007", or
\* SetPreset was given "7" and sent it.
C17_Witness ==
    /\ call.fn \in {"setPreset", "SetPreset"}
    /\ call.on[1] = <<"0", "8">>
    /\ call.on[2] = (IF impl = "js" THEN Num(7) ELSE <<"7">>)
    /\ out.st = "send"
    /\ SubSeq(out.val, 1, 11) = <<"(", "&", "P", "0", "8", "0", "0", "0", "0", "0", "7">>

\* The parameters of the frame in out, whose header has two characters.
ParametersSent == SubSeq(out.val, 4, Len(out.val) - 3)

\* C18: changePrice given a nozzle code of 2 characters, a level of 1
\* character and a price that fits 4 digits sends header "&U" with the
\* parameters nozzle + level + "0" + price in 4 digits: 8 characters, the
\* separator "0" at offset 3.
C18_PriceLayout ==
    (/\ Operated
     /\ call.fn \in {"changePrice", "ChangePrice"}
     /\ Len(call.on[1]) = 2 /\ Len(call.on[2]) = 1 /\ Fits(call)) =>
       /\ out.st = "send"
       /\ SubSeq(out.val, 1, 3) = <<"(", "&", "U">>
       /\ Checksummed(out.val)
       /\ Len(ParametersSent) = 8
       /\ ParametersSent[4] = "0"
       /\ SubSeq(ParametersSent, 1, 2) = call.on[1]
       /\ SubSeq(ParametersSent, 3, 3) = call.on[2]
       /\ Len(SubSeq(ParametersSent, 5, 8)) = 4
       /\ ValueOf(SubSeq(ParametersSent, 5, 8)) = ValueOf(ValueGiven(call))

\* Witness of C18: changePrice("08", "1", 77) sent the parameters "08100077".
C18_Witness ==
    /\ call.fn \in {"changePrice", "ChangePrice"}
    /\ call.on[1] = <<"0", "8">> /\ call.on[2] = <<"1">>
    /\ call.on[3] = (IF impl = "js" THEN Num(77) ELSE <<"7", "7">>)
    /\ out.st = "send"
    /\ ParametersSent = <<"0", "8", "1", "0", "0", "0", "7", "7">>

\* An interpreter has been applied to a response.
Interpreted == call.fn \in Interpreters /\ out # Pending
\* The response an interpretation reads.
ResponseOf(c) == c.on[Len(c.on)]

\* C19: the reply "(0)" given to any response interpreter (supply, identified
\* supply, visualization, status, total) yields the 'no data' result: the
\* interpreter raises no error and decodes no field from the characters of
\* the sentinel.
C19_SentinelNoData ==
    (Interpreted /\ ResponseOf(call) = Sentinel)
        => (out.st = "ok" /\ out.val.fields = <<>>)

\* The interpretations of a supply response.
SupplyDecoded ==
    /\ Interpreted
    /\ \/ call.fn \in {"parseSupplyResponse", "monitorSupplies", "handleSupply"}
       \/ call.fn = "handleGetRequest" /\ call.on[1] = "/supply"
\* The body of a supply response: response[1 : len - 3].
SupplyBody == SubSeq(ResponseOf(call), 2, Len(ResponseOf(call)) - 3)
\* Field i of the layout is in the result, read from its slice of the body.
Populated(i) ==
    \E k \in 1..Len(out.val.fields) :
       /\ out.val.fields[k].name = SupplyLayout[i].name
       /\ LET value == out.val.fields[k].value
              slice == SubSeq(SupplyBody, SupplyLayout[i].from + 1, SupplyLayout[i].to)
          IN \/ value.t = "string" /\ value.v = slice /\ slice # <<>>
             \/ value.t = "number" /\ value.v = ValueOf(slice)
\* Field i of the layout is not in the result, or is there without a value.
Unset(i) ==
    \A k \in 1..Len(out.val.fields) :
       out.val.fields[k].name = SupplyLayout[i].name
          => \/ out.val.fields[k].value.t = "null"
             \/ /\ out.val.fields[k].value.t = "string"
                /\ out.val.fields[k].value.v = <<>>

\* C20: supply decoding reads the body response[1 : len - 3]; a body of 52
\* characters populates all 13 fields, a body of 30 characters populates
\* exactly the first 9 and leaves month, record, finalTotal and status unset,
\* and neither raises an error.
C20_SupplyFields ==
    SupplyDecoded =>
        /\ out.st = "ok"
        /\ Len(SupplyBody) = 52 => \A i \in 1..13 : Populated(i)
        /\ Len(SupplyBody) = 30 =>
              /\ \A i \in 1..9 : Populated(i)
              /\ \A i \in 10..13 : Unset(i)


\* The result holds value v for the slice: the slice itself, or the number its
\* digits write.
Holds(v, slice) ==
    \/ v.t = "string" /\ v.v = slice
    \/ v.t = "number" /\ v.v = ValueOf(slice)

\* A visualization response has been decoded by the test client, the REST
\* example or the Go server.
VisualizationDecoded ==
    /\ Interpreted
    /\ ResponseOf(call) \in VisualizationResponses
    /\ \/ call.fn \in {"parseVisualizationResponse", "handleVisualization"}
       \/ call.fn = "handleGetRequest" /\ call.on[1] = "/visualization"
\* The body of a response without trailer: response[1 : len - 1].
InnerBody == SubSeq(ResponseOf(call), 2, Len(ResponseOf(call)) - 1)

\* C21: visualization decoding of a body of length n yields exactly
\* floor(n / 8) entries, entry k being nozzle = body[8k : 8k+2] and value =
\* body[8k+2 : 8k+8]; a trailing window of fewer than 8 characters gives no
\* entry.
C21_VisualizationWindows ==
    VisualizationDecoded =>
        /\ out.st = "ok"
        /\ Len(out.val.fields) = Len(InnerBody) \div 8
        /\ \A k \in 1..Len(out.val.fields) :
              /\ Holds(out.val.fields[k].nozzle,
                       SubSeq(InnerBody, 8 * (k - 1) + 1, 8 * (k - 1) + 2))
              /\ Holds(out.val.fields[k].value,
                       SubSeq(InnerBody, 8 * (k - 1) + 3, 8 * (k - 1) + 8))

\* A status response has been decoded by the test client, the REST example or
\* the Go server.
StatusDecoded ==
    /\ Interpreted
    /\ \/ call.fn \in {"parseStatusResponse", "handleStatus"}
       \/ call.fn = "handleGetRequest" /\ call.on[1] = "/status"
\* The status a code stands for.
StatusName(code) ==
    CASE code = "L" -> "Available"
      [] code = "B" -> "Blocked"
      [] code = "C" -> "Finished"
      [] code = "A" -> "Refueling"
      [] code = "E" -> "Waiting"
      [] code = "P" -> "Ready"
      [] OTHER -> "Unknown"

\* C22: status decoding of a body made of a tag and 32 status characters
\* reports every position i of 1..32 whose code (body character i) is not F,
\* with its index and the status its code stands for, and reports nothing
\* else.
C22_StatusPositions ==
    (StatusDecoded /\ Len(InnerBody) = 33) =>
        /\ out.st = "ok"
        /\ \A i \in 1..32 :
              InnerBody[i + 1] # "F" =>
                 \E k \in 1..Len(out.val.fields) :
                    /\ out.val.fields[k].position = i
                    /\ out.val.fields[k].status = StatusName(InnerBody[i + 1])
        /\ \A k \in 1..Len(out.val.fields) :
              /\ out.val.fields[k].position \in 1..32
              /\ InnerBody[out.val.fields[k].position + 1] # "F"
              /\ out.val.fields[k].status
                    = StatusName(InnerBody[out.val.fields[k].position + 1])

\* A total response has been decoded by the test client, the REST example or
\* the Go server.
TotalDecoded ==
    /\ Interpreted
    /\ \/ call.fn \in {"parseTotalResponse", "handleTotal"}
       \/ call.fn = "handleGetRequest" /\ call.on[1] = "/total/08/L"
\* The body of a response with a checksum: response[1 : len - 3].
CheckedBody == SubSeq(ResponseOf(call), 2, Len(ResponseOf(call)) - 3)
\* The result has field name, read from the slice.
HasField(name, slice) ==
    \E k \in 1..Len(out.val.fields) :
       /\ out.val.fields[k].name = name
       /\ out.val.fields[k].value.t = "string"
       /\ out.val.fields[k].value.v = slice

\* C23: total decoding of a body of 3 characters or more yields mode =
\* body[0], nozzle = body[1:3] and value = all of body[3:]; a body shorter than
\* 3 yields no mode, nozzle or value.
C23_TotalFields ==
    TotalDecoded =>
        /\ out.st = "ok"
        /\ IF Len(CheckedBody) >= 3
           THEN /\ HasField("mode", SubSeq(CheckedBody, 1, 1))
                /\ HasField("nozzle", SubSeq(CheckedBody, 2, 3))
                /\ HasField("value", SubSeq(CheckedBody, 4, Len(CheckedBody)))
           ELSE \A k \in 1..Len(out.val.fields) :
                   \/ out.val.fields[k].value.t = "undefined"
                   \/ /\ out.val.fields[k].value.t = "string"
                      /\ out.val.fields[k].value.v = <<>>


\* A response has been stripped with trailingCount call.on[2].
Stripped == call.fn = "data" /\ out # Pending

\* C24: stripping a response with trailingCount t returns exactly
\* response[1 : len - 1 - t] when the response has t + 2 characters or more,
\* and fails with a malformed-frame error when it is shorter; for t = 2
\* (supply, total) and t = 0 (visualization, status).
C24_StripFrame ==
    Stripped =>
       IF Len(call.on[1]) >= call.on[2] + 2
       THEN /\ out.st = "ok"
            /\ out.val = SubSeq(call.on[1], 2, Len(call.on[1]) - 1 - call.on[2])
       ELSE out.st = "MalformedFrame"


\* Caller c waits in c.mu.Lock().
AtLock(c) == pc[c] \in {LockOf(op) : op \in GoOps}

\* C25: every send call eventually returns to its caller, with a response or
\* an error, and releases the session's exclusive access when it does: no call
\* stays inside send forever, and no call waits for the mutex forever.
C25_SendReturns ==
    \A c \in Callers : (InSend(c) \/ AtLock(c)) ~> (pc[c] = "idle")


\* C26: the response a send call returns is data that arrived in reply to
\* that call's own frame: no chunk in the result of a send call is (part of)
\* the reply to another call's frame, such as the late reply to a call that
\* has timed out.
C26_OwnReply ==
    \A c \in Callers :
       (ret[c].op \in {"send", "SendCommand"} /\ ret[c].st = "ok")
          => \A chunk \in ret[c].chunks : chunk[1] = cur[c].id


\* The record field of a supply response, body[32:36]; empty when the
\* response does not reach it.
RecordField(response) ==
    IF Len(response) >= 37 THEN SubSeq(response, 34, 37)
    ELSE IF Len(response) >= 34 THEN SubSeq(response, 34, Len(response) - 3)
    ELSE <<>>
\* This step is a data event that hands a response to a tick of the supply
\* loop that awaits its read.
SupplyRead ==
    /\ mon.inbound # <<>>
    /\ mon'.inbound = Tail(mon.inbound)
    /\ \E i \in 1..Len(mon.listeners) : mon.tick[mon.listeners[i]] = "read"
\* The response is a newly detected supply record.
NewlyDetected ==
    /\ Head(mon.inbound) # Sentinel
    /\ mon.last = <<>> \/ mon.last[1] # RecordField(Head(mon.inbound))

\* C27: in the monitor's supply loop each newly detected supply record (a
\* response that is not "(0)" and whose record field differs from the last
\* recorded one) triggers onNewSupply exactly once and exactly one increment
\* command, however many overlapping ticks receive it; a response whose record
\* equals the last recorded one, or "(0)", triggers neither.
C27_OncePerRecord ==
    [][SupplyRead =>
         IF NewlyDetected
         THEN /\ mon'.notified = mon.notified + 1
              /\ Len(mon'.sent) = Len(mon.sent) + 1
              /\ mon'.sent[Len(mon'.sent)].kind = "increment"
              /\ mon'.last = <<RecordField(Head(mon.inbound))>>
         ELSE /\ mon'.notified = mon.notified
              /\ mon'.sent = mon.sent
              /\ mon'.last = mon.last]_vars
\* Witness of C27: two ticks overlapped, their reads both written before the
\* first reply came; the reply, a new record, reached both, onNewSupply was
\* called once and one increment was written, behind the second tick's read
\* the device has yet to handle.
C27_Witness ==
    \E t, u \in 1..MaxTicks :
       /\ t # u
       /\ mon.tick[t] = "increment" /\ mon.tick[u] = "done"
       /\ mon.notified = 1
       /\ mon.sent = <<[tick |-> u, kind |-> "read"],
                       [tick |-> t, kind |-> "increment"]>>


\* C28: for every ASCII header and parameter string the Go client's
\* BuildCommand and the Node.js client's buildCommand return the identical
\* frame, and for every input their calculateChecksum functions return the
\* identical two-character checksum.
C28_SameFrames ==
    /\ (call.fn = "calculateChecksum" /\ out # Pending) =>
          /\ out = Returned(calculateChecksum(call.on[1]))
          /\ out = Returned(GoCalculateChecksum(call.on[1]))
          /\ Len(out.val) = 2
    /\ (call.fn = "buildCommand" /\ out # Pending) =>
          /\ out = Returned(buildCommand(call.on[1], call.on[2]))
          /\ out = Returned(BuildCommand(call.on[1], call.on[2]))
\* Witness of C28: the Go client's calculateChecksum applied to "(XXP", whose
\* sum is 256, gave the padded "00", as the Node.js client's does.
C28_Witness ==
    /\ impl = "go"
    /\ call = Applied("calculateChecksum", <<<<"(", "X", "X", "P">>>>)
    /\ out = Returned(<<"0", "0">>)
    /\ calculateChecksum(call.on[1]) = <<"0", "0">>


\* C29: the Go REST handlers for status, supply, visualization and total never
\* slice a response out of range: for every response string, of any length
\* from 0 upward, "(0)", "()" and a single character included, the handler
\* answers with decoded fields or with the raw response, without a panic.
C29_NoPanic ==
    (impl = "go" /\ call.fn \in GoInterpreters /\ out # Pending) =>
       /\ out.st = "ok"
       /\ out.val.kind \in {"list", "record", "nodata", "raw"}
       /\ out.val.kind = "raw" => out.val = Raw(call.on[1])
\* Witness of C29: handleTotal answered "()" raw, the response being too
\* short for its first slice.
C29_Witness ==
    /\ impl = "go"
    /\ call = Applied("handleTotal", <<<<"(", ")">>>>)
    /\ out = Returned(Raw(<<"(", ")">>))


\* C30: in the Go client, whenever no operation holds the session mutex, the
\* connected flag is true exactly when the stored connection is non-nil: every
\* Connect, Disconnect and SendCommand that completes leaves
\* connected == (conn != nil).
C30_FlagMatchesConn ==
    (impl = "go" /\ mu = 0) => (connected <=> conn # 0)
\* Witness of C30: a connection was established and Disconnect has closed it
\* and returned; the mutex is free, the flag false and no connection stored.
C30_Witness ==
    /\ impl = "go"
    /\ mu = 0
    /\ ~connected /\ conn = 0
    /\ \E c \in Callers : ret[c] = Ok("Disconnect")
    /\ \E s \in SockIds : sock[s].st = "closed"

====
